---- MODULE Spec2Model ----
(***************************************************************************)
(* Model of the Discord Study Bot core: the summarization-validation       *)
(* pipeline (services/summarization.py) and the QA quality loop            *)
(* (services/qa_dataset.py).                                               *)
(*                                                                         *)
(* Strings are sequences of one-character strings.  A Python dict is a     *)
(* function from key names to values; a key that is absent from the dict   *)
(* is absent from the DOMAIN.  The completion backend is external: each    *)
(* of its answers is drawn nondeterministically from a bounded set.        *)
(***************************************************************************)
EXTENDS Integers, Sequences, FiniteSets, TLC

\* ------------------------------------------------------------------ bounds
\* largest number of items the backend puts in one summary answer
MaxBullets == 3
\* largest max_points argument tried by the general specification
MaxPointsArg == 2
\* largest number of entries in one validation answer
MaxEntries == 3

\* ------------------------------------------------------- program constants
MinDocLength == 100
MaxDocLength == 12000
MaxPointLength == 100
TruncatedLength == 97
DefaultMaxPoints == 10

\* ------------------------------------------------------------ string tools
RECURSIVE Rep(_, _)
Rep(c, n) == IF n = 0 THEN <<>> ELSE <<c>> \o Rep(c, n - 1)

Drop(s, n) == SubSeq(s, n + 1, Len(s))

StartsWith(s, p) == Len(s) >= Len(p) /\ SubSeq(s, 1, Len(p)) = p

\* str.strip(): remove leading and trailing whitespace
RECURSIVE LStrip(_)
LStrip(s) == IF s # <<>> /\ s[1] = " " THEN LStrip(Tail(s)) ELSE s

RECURSIVE RStrip(_)
RStrip(s) == IF s # <<>> /\ s[Len(s)] = " " THEN RStrip(SubSeq(s, 1, Len(s) - 1)) ELSE s

Strip(s) == RStrip(LStrip(s))

\* dict.get(key, default)
Get(d, k, def) == IF k \in DOMAIN d THEN d[k] ELSE def

\* the empty dict
EmptyDict == [k \in {} |-> TRUE]

\* the fixed messages of summarization.py, as strings of their length
MsgTooShortError == Rep("t", 44)
MsgTooShort == Rep("i", 57)
MsgGenerateError == Rep("g", 76)
MsgParseError == Rep("p", 51)
MsgValidateError == <<"e", "r", "r">>

\* the bullet character U+2022
Dot == "@"

\* one summary bullet, cleaned as both generators clean it
FormatBullet(bullet) ==
    LET c1 == Strip(bullet)
        c2 == IF StartsWith(c1, <<"-", " ">>) THEN Drop(c1, 2) ELSE c1
        c3 == IF StartsWith(c2, <<Dot, " ">>) THEN Drop(c2, 2) ELSE c2
    IN  IF Len(c3) > MaxPointLength
        THEN SubSeq(c3, 1, TruncatedLength) \o <<".", ".", ".">>
        ELSE c3

\* ------------------------------------------------- summarization: state
VARIABLES
    pc,                 \* position of the summarize_document invocation
    doc_len,            \* len(document_text)
    max_points,         \* argument max_points
    validation_enabled, \* argument validation_enabled
    topics,             \* result of _extract_document_topics
    summary_points,     \* result of _generate_summary_points
    replacement_summary,\* result of _generate_replacement_summary
    result,             \* the dict summarize_document returns
    calls               \* completion calls issued by this invocation, in order

sumVars == <<pc, doc_len, max_points, validation_enabled, topics,
             summary_points, replacement_summary, result, calls>>

\* ---------------------------------------------------- QA quality loop: state
VARIABLES
    materials,  \* collection materials, in insertion order
    questions,  \* collection questions: id -> document
    feedback,   \* collection question_feedback, in insertion order
    changelog,  \* collection qa_changelog, in insertion order
    rf,         \* the record_question_feedback flows
    ev,         \* the evaluate_and_update_questions flows
    qa_calls    \* completion calls issued by the QA loop, in order

qaVars == <<materials, questions, feedback, changelog, rf, ev, qa_calls>>

\* ------------------------------- generation, upload, completion client: state
VARIABLES
    gp,         \* the generate_qa_pairs flow
    ae,         \* the generate_adversarial_examples flow
    up,         \* the upload command flows
    oc          \* the generation operation of the completion client

restVars == <<gp, ae, up, oc>>

\* ------------------------------------- repeated calls, quiz session: state
VARIABLES
    backend,    \* the completion backend the repeated calls talk to
    first,      \* what the first of two summarize_document calls returned
    qv,         \* the QuizView of one quiz session and what its calls did
    cb          \* the answer_callback invocations of the session

extVars == <<backend, first, qv, cb>>

vars == <<pc, doc_len, max_points, validation_enabled, topics, summary_points,
          replacement_summary, result, calls, materials, questions, feedback, changelog,
          rf, ev, qa_calls, gp, ae, up, oc, backend, first, qv, cb>>

\* a JSON item of a list: a string or something else
Str(s) == [isStr |-> TRUE, val |-> s]
NonStr == [isStr |-> FALSE, val |-> <<>>]

DefaultTopics ==
    [subject_areas |-> <<Str("Academic"), Str("Education"), Str("Study Material")>>,
     key_topics |-> <<Str("Concepts"), Str("Definitions"), Str("Key Points")>>]

NoTopics == [subject_areas |-> <<>>, key_topics |-> <<>>]

\* resp: the outcome of generate_structured_completion
\*   kind "raise"   the call raised
\*   kind "nondict" it returned a JSON value that is not an object
\*   kind "dict"    it returned the object resp.value
extract_document_topics(resp) ==
    IF resp.kind # "dict"
    THEN NoTopics
    ELSE LET subject_areas == Get(resp.value, "subject_areas", <<>>)
             key_topics == Get(resp.value, "key_topics", <<>>)
         IN  IF key_topics = <<>> /\ subject_areas = <<>>
             THEN DefaultTopics
             ELSE [subject_areas |-> subject_areas, key_topics |-> key_topics]

\* ", ".join(topic_keywords) raises TypeError on an item that is not a string
get_document_summary_prompt_raises(topic_keywords) ==
    /\ topic_keywords # <<>>
    /\ \E i \in 1..Len(topic_keywords) : ~topic_keywords[i].isStr

IsBulletLine(line) ==
    LET l == Strip(line)
    IN  StartsWith(l, <<"-", " ">>) \/ StartsWith(l, <<"*", " ">>) \/ StartsWith(l, <<Dot, " ">>)

IsNonEmptyLine(line) == Strip(line) # <<>>

BulletsFromLines(lines) ==
    LET sel == SelectSeq(lines, IsBulletLine)
    IN  [i \in 1..Len(sel) |-> Str(Strip(Drop(Strip(sel[i]), 2)))]

\* text: the completion text
\*   brackets  a '[' is found and a ']' after it
\*   jsonOk    the bracketed part is valid JSON; items is the parsed list
\*   lines     text.split('\n')
extract_json_array(text) ==
    IF text.brackets
    THEN IF text.jsonOk
         THEN text.items
         ELSE LET bullets == BulletsFromLines(text.lines)
              IN  IF bullets # <<>> THEN bullets ELSE <<Str(MsgParseError)>>
    ELSE LET bullets == BulletsFromLines(text.lines)
             nonEmpty == SelectSeq(text.lines, IsNonEmptyLine)
         IN  IF bullets # <<>>
             THEN bullets
             ELSE [i \in 1..Len(nonEmpty) |-> Str(Strip(nonEmpty[i]))]

Min(a, b) == IF a < b THEN a ELSE b

\* the body of the try block shared by both generators:
\* <<TRUE, bullets>> or <<FALSE, <<>>>> when bullet.strip() raises
FormattedBullets(text, maxp) ==
    LET bullets == extract_json_array(text)
        head == SubSeq(bullets, 1, Min(maxp, Len(bullets)))
    IN  IF \E i \in 1..Len(head) : ~head[i].isStr
        THEN <<FALSE, <<>>>>
        ELSE <<TRUE, [i \in 1..Len(head) |-> FormatBullet(head[i].val)]>>

\* resp: the outcome of generate_completion, kind "raise" or kind "text"
generate_summary_points(resp, maxp) ==
    IF resp.kind = "raise"
    THEN <<MsgGenerateError>>
    ELSE LET f == FormattedBullets(resp, maxp)
         IN  IF f[1] THEN f[2] ELSE <<MsgGenerateError>>

generate_replacement_summary(resp, maxp) ==
    IF resp.kind = "raise"
    THEN <<>>
    ELSE LET f == FormattedBullets(resp, maxp)
         IN  IF f[1] THEN f[2] ELSE <<>>

IsDictEntry(p) == "nondict" \notin DOMAIN p

NotSupported(p) == ~Get(p, "supported", FALSE)

Supported(p) == Get(p, "supported", FALSE)

validate_summaryCountingFailure(resp, points) ==
    LET failed == [error |-> MsgValidateError,
                   invalid_points_count |-> Len(points),
                   total_points |-> Len(points)]
    IN  IF resp.kind # "dict"
        THEN failed
        ELSE LET res == Get(resp.value, "result", [isList |-> TRUE, entries |-> <<>>])
                 point_analysis == IF res.isList THEN res.entries ELSE <<>>
             IN  IF \E i \in 1..Len(point_analysis) : ~IsDictEntry(point_analysis[i])
                 THEN failed
                 ELSE [point_analysis |-> point_analysis,
                       invalid_points_count |-> Len(SelectSeq(point_analysis, NotSupported)),
                       total_points |-> Len(point_analysis)]

\* resp as for extract_document_topics; the object's "result" field is
\* [isList |-> ..., entries |-> ...]
validate_summary(resp, points) ==
    LET failed == [error |-> MsgValidateError,
                   invalid_points_count |-> 0,
                   total_points |-> Len(points)]
    IN  IF resp.kind # "dict"
        THEN failed
        ELSE LET res == Get(resp.value, "result", [isList |-> TRUE, entries |-> <<>>])
                 point_analysis == IF res.isList THEN res.entries ELSE <<>>
             IN  IF \E i \in 1..Len(point_analysis) : ~IsDictEntry(point_analysis[i])
                 THEN failed
                 ELSE [point_analysis |-> point_analysis,
                       invalid_points_count |-> Len(SelectSeq(point_analysis, NotSupported)),
                       total_points |-> Len(point_analysis)]

\* the valid points, or the KeyError of p["point"]:
\* <<TRUE, points>> or <<FALSE, <<>>>> when the lookup raises
ValidPoints(validation) ==
    LET sup == SelectSeq(Get(validation, "point_analysis", <<>>), Supported)
    IN  IF \E i \in 1..Len(sup) : "point" \notin DOMAIN sup[i]
        THEN <<FALSE, <<>>>>
        ELSE <<TRUE, [i \in 1..Len(sup) |-> sup[i].point]>>

LostTooManyInclusive(valid_points, points) == 10 * Len(valid_points) <= 7 * Len(points)

\* len(valid_points) < 0.7 * len(summary_points); for these integer lengths
\* the float comparison agrees with the exact one
LostTooMany(valid_points, points) == 10 * Len(valid_points) < 7 * Len(points)

TooShortInclusive(len) == len <= MinDocLength

\* len(document_text) < 100
TooShort(len) == len < MinDocLength

HasInvalidPointsAlways(validation) == Get(validation, "invalid_points_count", 0) >= 0

\* validation.get("invalid_points_count", 0) > 0
HasInvalidPoints(validation) == Get(validation, "invalid_points_count", 0) > 0

UseReplacementUnguarded(res, replacement) ==
    [res EXCEPT !.summary = replacement] @@ ("regenerated" :> TRUE)

\* if replacement_summary: the replacement becomes the summary
UseReplacement(res, replacement) ==
    IF replacement # <<>>
    THEN [res EXCEPT !.summary = replacement] @@ ("regenerated" :> TRUE)
    ELSE res

TooShortResult ==
    [success |-> FALSE, error |-> MsgTooShortError, summary |-> <<MsgTooShort>>]

\* ------------------------------------- the answers of the completion backend
RaiseResp == [kind |-> "raise", value |-> EmptyDict]
NonDictResp == [kind |-> "nondict", value |-> EmptyDict]
DictResp(d) == [kind |-> "dict", value |-> d]

GoodAreas == <<Str("Logic")>>
GoodKeys == <<Str("Modus Ponens"), Str("MDP")>>

TopicDicts ==
    { EmptyDict,
      [subject_areas |-> GoodAreas, key_topics |-> GoodKeys],
      [subject_areas |-> GoodAreas],
      [subject_areas |-> <<>>, key_topics |-> <<>>],
      [subject_areas |-> GoodAreas, key_topics |-> <<Str("MDP"), NonStr>>] }

TopicResponses == {RaiseResp, NonDictResp} \cup {DictResp(d) : d \in TopicDicts}

RaiseText == [kind |-> "raise", brackets |-> FALSE, jsonOk |-> FALSE,
              items |-> <<>>, lines |-> <<>>]
ArrayText(items) == [kind |-> "text", brackets |-> TRUE, jsonOk |-> TRUE,
                     items |-> items, lines |-> <<>>]
BadArrayText(lines) == [kind |-> "text", brackets |-> TRUE, jsonOk |-> FALSE,
                        items |-> <<>>, lines |-> lines]
PlainText(lines) == [kind |-> "text", brackets |-> FALSE, jsonOk |-> FALSE,
                     items |-> <<>>, lines |-> lines]

\* raw bullets: short; prefixed and over-long; padded and exactly 100 long;
\* with the bullet character
Exemplar ==
    << <<"a", "a", "a">>,
       <<"-", " ">> \o Rep("b", MaxPointLength + 1),
       <<" ">> \o Rep("c", MaxPointLength) \o <<" ">>,
       <<Dot, " ", "d", "d">> >>

GenItems(n, s) == [i \in 1..n |-> Str(Exemplar[((i + s) % Len(Exemplar)) + 1])]

SomeLines == << <<" ", "-", " ", "l", "1">>, <<"p", "l", "a", "i", "n">>, <<" ">>,
                <<"*", " ">> \o Rep("m", MaxPointLength + 2) >>
PlainLines == << <<"p", "1">>, <<" ", " ">>, Rep("q", MaxPointLength + 1) >>

GenTexts ==
    {RaiseText}
    \cup {ArrayText(GenItems(n, s)) : n \in 0..MaxBullets, s \in 0..(Len(Exemplar) - 1)}
    \cup {ArrayText(<<Str(Exemplar[1]), NonStr>>)}
    \cup {BadArrayText(SomeLines), BadArrayText(PlainLines)}
    \cup {PlainText(SomeLines), PlainText(PlainLines), PlainText(<<>>)}

ReplacementTexts ==
    {RaiseText}
    \cup {ArrayText(GenItems(n, 1)) : n \in 0..MaxBullets}
    \cup {ArrayText(<<NonStr>>), PlainText(PlainLines)}

LongPoint == Rep("h", MaxPointLength + 1)
ExtraPoint == <<"x">>

\* the i-th entry of a validation answer, in one of six shapes
MkEntry(shape, i, points) ==
    LET echo == IF i <= Len(points) THEN points[i] ELSE ExtraPoint
    IN  CASE shape = 1 -> [point |-> echo, supported |-> TRUE]
          [] shape = 2 -> [point |-> echo, supported |-> FALSE]
          [] shape = 3 -> [supported |-> TRUE]
          [] shape = 4 -> [point |-> echo]
          [] shape = 5 -> [point |-> LongPoint, supported |-> TRUE]
          [] OTHER -> [nondict |-> TRUE]

ResultList(entries) == [result |-> [isList |-> TRUE, entries |-> entries]]

ValidationResponses(points) ==
    {RaiseResp, NonDictResp, DictResp(EmptyDict),
     DictResp([result |-> [isList |-> FALSE, entries |-> <<>>]])}
    \cup UNION { { DictResp(ResultList([i \in 1..m |-> MkEntry(f[i], i, points)]))
                   : f \in [1..m -> 1..6] } : m \in 0..MaxEntries }

\* the answers of a backend that marks every point: one entry per point,
\* carrying the point's text and a verdict
MarkingResponses(points) ==
    { DictResp(ResultList([i \in 1..Len(points) |->
                              [point |-> points[i], supported |-> f[i]]]))
      : f \in [1..Len(points) -> BOOLEAN] }

ShortItems(n) == [i \in 1..n |-> Str(Rep("s", i))]

GenTextsDefault == {RaiseText} \cup {ArrayText(ShortItems(n)) : n \in 0..DefaultMaxPoints}

ReplacementTextsDefault ==
    {RaiseText} \cup {ArrayText(ShortItems(n)) : n \in {0, 1, DefaultMaxPoints}}

\* ------------------------------------------------ summarization: actions
StartSummaryCounting(len, maxp, enabled) ==
    /\ max_points' = IF calls = <<>> THEN maxp ELSE 1
    /\ validation_enabled' = enabled
    /\ topics' = NoTopics
    /\ summary_points' = <<>>
    /\ replacement_summary' = <<>>
    /\ calls' = <<>>
    /\ IF TooShort(len)
       THEN /\ doc_len' = len
            /\ result' = TooShortResult
            /\ pc' = "done"
       ELSE /\ doc_len' = IF len > MaxDocLength THEN MaxDocLength + 3 ELSE len
            /\ result' = EmptyDict
            /\ pc' = "topics"

\* summarize_document up to its first completion call: the arguments, fresh
\* locals, the length check and the truncation
StartSummary(len, maxp, enabled) ==
    /\ max_points' = maxp
    /\ validation_enabled' = enabled
    /\ topics' = NoTopics
    /\ summary_points' = <<>>
    /\ replacement_summary' = <<>>
    /\ calls' = <<>>
    /\ IF TooShort(len)
       THEN /\ doc_len' = len
            /\ result' = TooShortResult
            /\ pc' = "done"
       ELSE /\ doc_len' = IF len > MaxDocLength THEN MaxDocLength + 3 ELSE len
            /\ result' = EmptyDict
            /\ pc' = "topics"

SummarizeDocument(len, maxp, enabled) ==
    /\ pc \in {"idle", "done", "raised"}
    /\ StartSummary(len, maxp, enabled)
    /\ UNCHANGED qaVars
    /\ UNCHANGED restVars
    /\ UNCHANGED extVars

ExtractTopics(resp) ==
    /\ pc = "topics"
    /\ calls' = Append(calls, "topics")
    /\ topics' = extract_document_topics(resp)
    /\ pc' = IF get_document_summary_prompt_raises(topics'.key_topics)
             THEN "raised" ELSE "generate"
    /\ UNCHANGED <<doc_len, max_points, validation_enabled, summary_points,
                   replacement_summary, result>>
    /\ UNCHANGED qaVars
    /\ UNCHANGED restVars
    /\ UNCHANGED extVars

GenerateSummary(resp) ==
    /\ pc = "generate"
    /\ calls' = Append(calls, "generate")
    /\ summary_points' = generate_summary_points(resp, max_points)
    /\ result' = [success |-> TRUE, summary |-> summary_points', topics |-> topics]
    /\ pc' = IF validation_enabled /\ summary_points' # <<>> THEN "validate" ELSE "done"
    /\ UNCHANGED <<doc_len, max_points, validation_enabled, topics, replacement_summary>>
    /\ UNCHANGED qaVars
    /\ UNCHANGED restVars
    /\ UNCHANGED extVars

ValidateAndDecide(resp) ==
    /\ calls' = Append(calls, "validate")
    /\ LET validation == validate_summary(resp, summary_points)
           checked == result @@ ("validation" :> validation)
           valid == ValidPoints(validation)
       IN  IF HasInvalidPoints(validation)
           THEN IF ~valid[1]
                THEN /\ result' = checked
                     /\ pc' = "raised"
                ELSE IF LostTooMany(valid[2], summary_points)
                     THEN /\ result' = checked
                          /\ pc' = "regenerate"
                     ELSE /\ result' = [checked EXCEPT !.summary = valid[2]]
                                          @@ ("filtered" :> TRUE)
                          /\ pc' = "done"
           ELSE /\ result' = checked
                /\ pc' = "done"
    /\ UNCHANGED <<doc_len, max_points, validation_enabled, topics, summary_points,
                   replacement_summary>>
    /\ UNCHANGED qaVars
    /\ UNCHANGED restVars
    /\ UNCHANGED extVars

\* the validation step against an arbitrary backend; the guard comes first so
\* that the answers are enumerated only where the step is enabled
ValidateSummary ==
    /\ pc = "validate"
    /\ \E resp \in ValidationResponses(summary_points) : ValidateAndDecide(resp)

\* the validation step against a backend that marks every point
ValidateSummaryMarking ==
    /\ pc = "validate"
    /\ \E resp \in MarkingResponses(summary_points) : ValidateAndDecide(resp)

RegenerateSummaryRechecked(resp) ==
    /\ pc = "regenerate"
    /\ calls' = Append(calls, "regenerate")
    /\ replacement_summary' = generate_replacement_summary(resp, max_points)
    /\ result' = UseReplacement(result, replacement_summary')
    /\ pc' = "validate"
    /\ UNCHANGED <<doc_len, max_points, validation_enabled, topics, summary_points>>
    /\ UNCHANGED qaVars
    /\ UNCHANGED restVars
    /\ UNCHANGED extVars

\* _generate_replacement_summary and the use of its result; the call returns
RegenerateSummary(resp) ==
    /\ pc = "regenerate"
    /\ calls' = Append(calls, "regenerate")
    /\ replacement_summary' = generate_replacement_summary(resp, max_points)
    /\ result' = UseReplacement(result, replacement_summary')
    /\ pc' = "done"
    /\ UNCHANGED <<doc_len, max_points, validation_enabled, topics, summary_points>>
    /\ UNCHANGED qaVars
    /\ UNCHANGED restVars
    /\ UNCHANGED extVars

\* ------------------------------------------- summarization: repeated call
\* the key_topics lists topic extraction can hand to the summary prompt
KeyTopicLists == {extract_document_topics(r).key_topics : r \in TopicResponses}

FixedTexts == {RaiseText, ArrayText(GenItems(2, 0)), ArrayText(GenItems(3, 1)),
               PlainText(SomeLines)}

\* a backend that returns a fixed answer for each prompt: one answer to the
\* topic prompt of the document, and one to the summary prompt for each list
\* of key topics the prompt is built with
FixedBackends ==
    [topics : TopicResponses, summary : [KeyTopicLists -> FixedTexts]]

NoBackend == [topics |-> RaiseResp, summary |-> [k \in KeyTopicLists |-> RaiseText]]

NoCall == [pc |-> "none", result |-> EmptyDict]

\* the second call of summarize_document on the same service object, with
\* the arguments of the first; what the first call returned is kept for
\* comparison (a document cut to 12003 characters is cut to the same again)
SummarizeAgain ==
    /\ pc \in {"done", "raised"}
    /\ first = NoCall
    /\ first' = [pc |-> pc, result |-> result]
    /\ StartSummary(doc_len, max_points, validation_enabled)
    /\ UNCHANGED <<backend, qv, cb>>
    /\ UNCHANGED qaVars
    /\ UNCHANGED restVars

\* ------------------------------------------------ QA quality loop: data
RecordFlows == {1, 2}
EvalFlows == {1, 2}
QuestionIds == {"Q1", "Q2"}
Thresholds == {30, 50, 70}      \* threshold, in hundredths; 0.3 is the default

\* the order in which questions.find returns the documents
IdOrder == <<"Q1", "Q2", "Q3", "Q4", "Q5", "Q6", "Q7", "Q8", "Q9", "Q10",
             "Q11", "Q12", "Q13", "Q14", "Q15", "Q16">>

StoredQuestion(id) ==
    [id |-> id, material_id |-> "M1", question |-> "q0",
     question_type |-> IF id = "Q1" THEN "multiple_choice" ELSE "short_answer",
     options |-> IF id = "Q1" THEN "o0" ELSE "none",
     correct_answer |-> "a0", topic |-> "t0", difficulty |-> "medium", version |-> 1]

Feedback(q, is_correct, is_helpful) ==
    [question_id |-> q, is_correct |-> is_correct, is_helpful |-> is_helpful]

IsCorrect(f) == f.is_correct
IsRated(f) == f.is_helpful # "null"
IsHelpful(f) == f.is_helpful = "true"

\* the metrics both _update_question_quality_metrics and the evaluation
\* compute from a list of feedback documents; a quotient c / n is the pair <<c, n>>
total_attempts(fb) == Len(fb)
correct_answers(fb) == Len(SelectSeq(fb, IsCorrect))
helpful_ratings(fb) == SelectSeq(fb, IsRated)
helpful_count(fb) == Len(SelectSeq(helpful_ratings(fb), IsHelpful))
accuracy(fb) == IF total_attempts(fb) # 0
                THEN <<correct_answers(fb), total_attempts(fb)>> ELSE <<0, 1>>
helpfulness(fb) == IF helpful_ratings(fb) # <<>>
                   THEN <<helpful_count(fb), Len(helpful_ratings(fb))>> ELSE <<0, 1>>

QualityBelowSwapped(fb, thr) ==
    LET a == accuracy(fb)
        h == helpfulness(fb)
    IN  10 * (6 * a[1] * h[2] + 4 * h[1] * a[2]) < thr * a[2] * h[2]

\* quality_score < threshold, with quality_score = accuracy*0.4 + helpfulness*0.6
\* and threshold = thr / 100; for the thresholds and list lengths used here the
\* float comparison agrees with the exact one
QualityBelow(fb, thr) ==
    LET a == accuracy(fb)
        h == helpfulness(fb)
    IN  10 * (4 * a[1] * h[2] + 6 * h[1] * a[2]) < thr * a[2] * h[2]

VeryUnhelpfulInclusive(fb) == LET h == helpfulness(fb) IN 5 * h[1] <= h[2]

\* helpfulness < 0.2
VeryUnhelpful(fb) == LET h == helpfulness(fb) IN 5 * h[1] < h[2]

\* the material the QA service works on
StoredMaterial == [id |-> "M1", user_id |-> "U1", content_hash |-> "H1"]

get_material_by_idAlways(store, material_id) == TRUE

\* materials.find_one({"id": material_id}) found a document
get_material_by_id(store, material_id) ==
    \E i \in 1..Len(store) : store[i].id = material_id

FeedbackOf(q) == SelectSeq(feedback, LAMBDA f : f.question_id = q)

\* questions.update_one({"id": q}, {"$set": update_data}): no upsert
update_one(store, q, update_data) ==
    IF q \in DOMAIN store THEN [store EXCEPT ![q] = update_data @@ @] ELSE store

\* questions.delete_one({"id": q})
delete_one(store, q) == [x \in DOMAIN store \ {q} |-> store[x]]

\* _log_qa_change
log_qa_change(log, question_id, material_id, action) ==
    Append(log, [question_id |-> question_id, material_id |-> material_id,
                 action |-> action])

\* --------------------------------------------- record_question_feedback
IdleRf == [pc |-> "idle", question_id |-> "Q1", update_data |-> EmptyDict]

\* the call up to and including feedback.insert_one
RecordFeedback(f, q, is_correct, is_helpful, maxFeedback) ==
    /\ rf[f].pc \in {"idle", "done"}
    /\ Len(feedback) < maxFeedback
    /\ feedback' = Append(feedback, Feedback(q, is_correct, is_helpful))
    /\ rf' = [rf EXCEPT ![f] = [pc |-> "find", question_id |-> q,
                                update_data |-> EmptyDict]]
    /\ UNCHANGED <<materials, questions, changelog, ev, qa_calls>>
    /\ UNCHANGED sumVars
    /\ UNCHANGED restVars
    /\ UNCHANGED extVars

\* _update_question_quality_metrics: feedback.find and the computation
FindFeedback(f) ==
    /\ rf[f].pc = "find"
    /\ LET fb == FeedbackOf(rf[f].question_id)
       IN  rf' = IF fb = <<>>
                 THEN [rf EXCEPT ![f].pc = "done"]
                 ELSE [rf EXCEPT ![f].pc = "update",
                                 ![f].update_data =
                                     [quality_metrics |->
                                         [accuracy |-> accuracy(fb),
                                          helpfulness |-> helpfulness(fb),
                                          total_attempts |-> total_attempts(fb)]]]
    /\ UNCHANGED <<materials, questions, feedback, changelog, ev, qa_calls>>
    /\ UNCHANGED sumVars
    /\ UNCHANGED restVars
    /\ UNCHANGED extVars

\* _update_question_quality_metrics: questions.update_one, then the return
UpdateMetrics(f) ==
    /\ rf[f].pc = "update"
    /\ questions' = update_one(questions, rf[f].question_id, rf[f].update_data)
    /\ rf' = [rf EXCEPT ![f].pc = "done"]
    /\ UNCHANGED <<materials, feedback, changelog, ev, qa_calls>>
    /\ UNCHANGED sumVars
    /\ UNCHANGED restVars
    /\ UNCHANGED extVars

\* ----------------------------------------- evaluate_and_update_questions
NoStats == [total_questions |-> 0, removed |-> 0, updated |-> 0, no_action |-> 0]

IdleEv == [pc |-> "idle", material_id |-> "M1", threshold |-> 30,
           questions |-> <<>>, all_feedback |-> EmptyDict, i |-> 1,
           stats |-> NoStats, update_data |-> EmptyDict, base |-> 0]

\* the answers of generate_completion to the improvement prompt
\*   braces  a '{' is found and a '}' after it
\*   jsonOk  the part between them is valid JSON; obj is the parsed object
ImproveRaise == [kind |-> "raise", braces |-> FALSE, jsonOk |-> FALSE, obj |-> EmptyDict]
ImproveText(braces, jsonOk, obj) ==
    [kind |-> "text", braces |-> braces, jsonOk |-> jsonOk, obj |-> obj]

ImprovedObjects ==
    { [question |-> "q1", type |-> "multiple_choice", options |-> "o1",
       correct_answer |-> "a1", topic |-> "t1", improvement_notes |-> "n1"],
      [question |-> "q1", correct_answer |-> "a1"],
      EmptyDict }

ImproveResponses ==
    {ImproveRaise, ImproveText(FALSE, FALSE, EmptyDict), ImproveText(TRUE, FALSE, EmptyDict)}
    \cup {ImproveText(TRUE, TRUE, o) : o \in ImprovedObjects}

ImproveUpdateDataAnyType(question, improved) ==
    [question |-> Get(improved, "question", question.question),
     topic |-> Get(improved, "topic", question.topic),
     updated_at |-> "now",
     improvement_notes |-> Get(improved, "improvement_notes",
                               "Question automatically improved")]
    @@ (IF "options" \in DOMAIN improved
        THEN [options |-> improved.options] ELSE EmptyDict)
    @@ (IF "correct_answer" \in DOMAIN improved
        THEN [correct_answer |-> improved.correct_answer] ELSE EmptyDict)

\* update_data of _improve_question
ImproveUpdateData(question, improved) ==
    [question |-> Get(improved, "question", question.question),
     topic |-> Get(improved, "topic", question.topic),
     updated_at |-> "now",
     improvement_notes |-> Get(improved, "improvement_notes",
                               "Question automatically improved")]
    @@ (IF question.question_type = "multiple_choice" /\ "options" \in DOMAIN improved
        THEN [options |-> improved.options] ELSE EmptyDict)
    @@ (IF "correct_answer" \in DOMAIN improved
        THEN [correct_answer |-> improved.correct_answer] ELSE EmptyDict)

\* questions.find({"material_id": m}): the documents, in id order
FindQuestions(m) ==
    LET ids == SelectSeq(IdOrder, LAMBDA q : q \in DOMAIN questions
                                             /\ questions[q].material_id = m)
    IN  [k \in 1..Len(ids) |-> questions[ids[k]]]

\* the end of one iteration of the processing loop; after the last question
\* the call returns stats
NextQuestion(flow, stats) ==
    [flow EXCEPT !.stats = stats,
                 !.i = flow.i + 1,
                 !.update_data = EmptyDict,
                 !.pc = IF flow.i + 1 > Len(flow.questions) THEN "done" ELSE "process"]

NoFeedbackNever(fb) == FALSE

\* if not feedback
NoFeedback(fb) == fb = <<>>

ParsedObjectAnyBraces(resp) == resp.braces

\* a JSON object was found in the response and json.loads accepted it
ParsedObject(resp) == resp.braces /\ resp.jsonOk

BumpNoAction(stats, key) == [stats EXCEPT !["no_action"] = @ + 1]

\* stats[key] += 1
Bump(stats, key) == [stats EXCEPT ![key] = @ + 1]

\* the call up to and including questions.find
EvaluateAndUpdate(e, m, thr) ==
    /\ ev[e].pc \in {"idle", "done", "raised"}
    /\ LET qs == FindQuestions(m)
       IN  ev' = [ev EXCEPT ![e] =
                    [IdleEv EXCEPT !.pc = "find_feedback",
                                   !.material_id = m,
                                   !.threshold = thr,
                                   !.questions = qs,
                                   !.base = Len(changelog)]]
    /\ UNCHANGED <<materials, questions, feedback, changelog, rf, qa_calls>>
    /\ UNCHANGED sumVars
    /\ UNCHANGED restVars
    /\ UNCHANGED extVars

\* feedback.find for the next question; after the last one stats is built
FindQuestionFeedback(e) ==
    /\ ev[e].pc = "find_feedback"
    /\ LET flow == ev[e]
           n == Len(flow.questions)
       IN  IF flow.i > n
           THEN ev' = [ev EXCEPT ![e].stats = [NoStats EXCEPT !.total_questions = n],
                                 ![e].i = 1,
                                 ![e].pc = IF n = 0 THEN "done" ELSE "process"]
           ELSE LET q_id == flow.questions[flow.i].id
                IN  ev' = [ev EXCEPT ![e].all_feedback = (q_id :> FeedbackOf(q_id)) @@ @,
                                     ![e].i = flow.i + 1]
    /\ UNCHANGED <<materials, questions, feedback, changelog, rf, qa_calls>>
    /\ UNCHANGED sumVars
    /\ UNCHANGED restVars
    /\ UNCHANGED extVars

\* one iteration of the processing loop, up to its first store call
ProcessQuestion(e) ==
    /\ ev[e].pc = "process"
    /\ LET flow == ev[e]
           q == flow.questions[flow.i]
           fb == Get(flow.all_feedback, q.id, <<>>)
       IN  IF NoFeedback(fb)
           THEN /\ ev' = [ev EXCEPT ![e] = NextQuestion(flow, Bump(flow.stats, "no_action"))]
                /\ UNCHANGED questions
           ELSE IF QualityBelow(fb, flow.threshold)
                THEN IF VeryUnhelpful(fb)
                     THEN /\ questions' = delete_one(questions, q.id)
                          /\ ev' = [ev EXCEPT ![e].pc = "log_removed"]
                     ELSE /\ UNCHANGED questions
                          /\ ev' = IF get_material_by_id(materials, flow.material_id)
                                   THEN [ev EXCEPT ![e].pc = "improve"]
                                   ELSE [ev EXCEPT ![e] =
                                           NextQuestion(flow, Bump(flow.stats, "no_action"))]
                ELSE /\ ev' = [ev EXCEPT ![e] = NextQuestion(flow, Bump(flow.stats, "no_action"))]
                     /\ UNCHANGED questions
    /\ UNCHANGED <<materials, feedback, changelog, rf, qa_calls>>
    /\ UNCHANGED sumVars
    /\ UNCHANGED restVars
    /\ UNCHANGED extVars

\* _log_qa_change(action="removed") and stats["removed"] += 1
LogRemoved(e) ==
    /\ ev[e].pc = "log_removed"
    /\ LET flow == ev[e]
       IN  /\ changelog' = log_qa_change(changelog, flow.questions[flow.i].id,
                                         flow.material_id, "removed")
           /\ ev' = [ev EXCEPT ![e] = NextQuestion(flow, Bump(flow.stats, "removed"))]
    /\ UNCHANGED <<materials, questions, feedback, rf, qa_calls>>
    /\ UNCHANGED sumVars
    /\ UNCHANGED restVars
    /\ UNCHANGED extVars

\* _improve_question: generate_completion and the parsing of its answer
ImproveQuestion(e, resp) ==
    /\ ev[e].pc = "improve"
    /\ qa_calls' = Append(qa_calls, [call |-> "improve",
                                     question_id |-> ev[e].questions[ev[e].i].id])
    /\ LET flow == ev[e]
           q == flow.questions[flow.i]
       IN  IF resp.kind = "raise"
           THEN ev' = [ev EXCEPT ![e].pc = "raised"]
           ELSE IF ParsedObject(resp)
                THEN ev' = [ev EXCEPT ![e].pc = "update",
                                      ![e].update_data = ImproveUpdateData(q, resp.obj)]
                ELSE ev' = [ev EXCEPT ![e] =
                              NextQuestion(flow, Bump(flow.stats, "no_action"))]
    /\ UNCHANGED <<materials, questions, feedback, changelog, rf>>
    /\ UNCHANGED sumVars
    /\ UNCHANGED restVars
    /\ UNCHANGED extVars

\* _improve_question: questions.update_one
ApplyImprovement(e) ==
    /\ ev[e].pc = "update"
    /\ questions' = update_one(questions, ev[e].questions[ev[e].i].id, ev[e].update_data)
    /\ ev' = [ev EXCEPT ![e].pc = "log_updated"]
    /\ UNCHANGED <<materials, feedback, changelog, rf, qa_calls>>
    /\ UNCHANGED sumVars
    /\ UNCHANGED restVars
    /\ UNCHANGED extVars

\* _improve_question: _log_qa_change(action="updated"), return True,
\* and stats["updated"] += 1
LogUpdated(e) ==
    /\ ev[e].pc = "log_updated"
    /\ LET flow == ev[e]
       IN  /\ changelog' = log_qa_change(changelog, flow.questions[flow.i].id,
                                         flow.material_id, "updated")
           /\ ev' = [ev EXCEPT ![e] = NextQuestion(flow, Bump(flow.stats, "updated"))]
    /\ UNCHANGED <<materials, questions, feedback, rf, qa_calls>>
    /\ UNCHANGED sumVars
    /\ UNCHANGED restVars
    /\ UNCHANGED extVars

\* ------------------------------------------------------- upload command
\* most material documents in the store when an upload starts
MaxMaterials == 3

UploadFlows == {1, 2}
Users == {"U1", "U2"}
\* content fingerprints: hashlib.md5 of the content, equal for equal content
Hashes == {"H1", "H2"}
\* the values str(uuid.uuid4()) takes, in the order they are drawn
MaterialIdPool == <<"M1", "M2", "M3", "M4", "M5", "M6", "M7">>

IdleUp == [pc |-> "idle", user_id |-> "U1", content_hash |-> "H1", outcome |-> "none"]

\* str(uuid.uuid4()): an id no stored material has
FreshMaterialId(store) ==
    LET used == {store[i].id : i \in 1..Len(store)}
        free == {k \in 1..Len(MaterialIdPool) : MaterialIdPool[k] \notin used}
    IN  MaterialIdPool[CHOOSE k \in free : \A l \in free : k <= l]

\* materials.find({"user_id": user_id})
get_materials_by_user(store, user_id) == SelectSeq(store, LAMBDA m : m.user_id = user_id)

\* the loop over existing_materials found the content hash
AlreadyUploaded(existing_materials, content_hash) ==
    \E i \in 1..Len(existing_materials) :
        existing_materials[i].content_hash = content_hash

\* upload, up to the call of get_materials_by_user: the registration check,
\* the source check and the processing of the source
Upload(u, user, registered, has_source, processed, hash) ==
    /\ up[u].pc \in {"idle", "done"}
    /\ Len(materials) < MaxMaterials
    /\ up' = [up EXCEPT ![u] =
                IF ~registered
                THEN [IdleUp EXCEPT !.pc = "done", !.user_id = user,
                                    !.outcome = "not_registered"]
                ELSE IF ~has_source
                THEN [IdleUp EXCEPT !.pc = "done", !.user_id = user,
                                    !.outcome = "no_source"]
                ELSE IF ~processed
                THEN [IdleUp EXCEPT !.pc = "done", !.user_id = user,
                                    !.outcome = "error"]
                ELSE [IdleUp EXCEPT !.pc = "check", !.user_id = user,
                                    !.content_hash = hash]]
    /\ UNCHANGED <<gp, ae, oc>>
    /\ UNCHANGED qaVars
    /\ UNCHANGED sumVars
    /\ UNCHANGED extVars

\* get_materials_by_user and the loop over its result
CheckExisting(u) ==
    /\ up[u].pc = "check"
    /\ up' = IF AlreadyUploaded(get_materials_by_user(materials, up[u].user_id),
                                up[u].content_hash)
             THEN [up EXCEPT ![u].pc = "done", ![u].outcome = "duplicate"]
             ELSE [up EXCEPT ![u].pc = "create"]
    /\ UNCHANGED <<gp, ae, oc>>
    /\ UNCHANGED qaVars
    /\ UNCHANGED sumVars
    /\ UNCHANGED extVars

\* StudyMaterial(id=str(uuid.uuid4()), ...) and create_material
CreateMaterial(u) ==
    /\ up[u].pc = "create"
    /\ materials' = Append(materials, [id |-> FreshMaterialId(materials),
                                       user_id |-> up[u].user_id,
                                       content_hash |-> up[u].content_hash])
    /\ up' = [up EXCEPT ![u].pc = "done", ![u].outcome = "uploaded"]
    /\ UNCHANGED <<gp, ae, oc>>
    /\ UNCHANGED <<questions, feedback, changelog, rf, ev, qa_calls>>
    /\ UNCHANGED sumVars
    /\ UNCHANGED extVars

\* ---------------------------------------------------- generate_qa_pairs
\* largest num_questions
MaxCount == 4
\* longest question_types list
MaxTypes == 3

QTypes == {"multiple_choice", "short_answer", "true_false"}
TypeLists == UNION { [1..n -> QTypes] : n \in 1..MaxTypes }
Difficulties == {"medium", "expert"}
\* the values of DifficultyLevel
DifficultyLevels == {"easy", "medium", "hard"}
\* a material id no stored material has
MissingMaterial == "M0"

\* the values str(uuid.uuid4()) takes for questions, in the order they are drawn
QuestionIdPool == IdOrder

\* an item of a parsed JSON list: an object or something else
Obj(d) == [isDict |-> TRUE, value |-> d]
NonObj == [isDict |-> FALSE, value |-> EmptyDict]

RangeOf(seq) == {seq[i] : i \in 1..Len(seq)}

\* the keys of {qt: ... for qt in question_types}, in insertion order
RECURSIVE KeyOrder(_)
KeyOrder(types) ==
    IF types = <<>> THEN <<>>
    ELSE LET front == KeyOrder(SubSeq(types, 1, Len(types) - 1))
             last == types[Len(types)]
         IN  IF last \in RangeOf(front) THEN front ELSE Append(front, last)

qtype_countNoRemainder(types, n) == [qt \in RangeOf(types) |-> n \div Len(types)]

\* qtype_count: num_questions // len(question_types) for every key, plus one
\* for every position i < remainder
qtype_count(types, n) ==
    [qt \in RangeOf(types) |->
        (n \div Len(types))
        + Cardinality({i \in 1..Len(types) : i - 1 < n % Len(types) /\ types[i] = qt})]

IdleGp == [pc |-> "idle", material_id |-> "M1", num_questions |-> 0,
           question_types |-> <<>>, difficulty |-> "medium",
           qtype_count |-> EmptyDict, k |-> 1, q_type |-> "none",
           requested |-> <<>>, pending |-> <<>>, all_questions |-> <<>>,
           error |-> "none"]

IdleAe == [pc |-> "idle", material_id |-> "M1", base_on_existing |-> FALSE,
           pending |-> <<>>, adversarial_questions |-> <<>>, labels |-> <<>>,
           k |-> 1, returned |-> <<>>, error |-> "none"]

\* str(uuid.uuid4()): an id that no stored question and no question under
\* construction has
FreshQuestionId ==
    LET used == DOMAIN questions
                \cup {gp.all_questions[i].id : i \in 1..Len(gp.all_questions)}
                \cup {ae.adversarial_questions[i].id :
                         i \in 1..Len(ae.adversarial_questions)}
        free == {k \in 1..Len(QuestionIdPool) : QuestionIdPool[k] \notin used}
    IN  QuestionIdPool[CHOOSE k \in free : \A l \in free : k <= l]

\* QuizQuestion(...).to_dict() for an item q of a batch of type q_type
QuizQuestionDict(id, material_id, q, q_type, difficulty) ==
    [id |-> id, material_id |-> material_id,
     question |-> Get(q, "question", ""),
     question_type |-> Get(q, "type", q_type),
     options |-> IF q_type = "multiple_choice" THEN Get(q, "options", "[]") ELSE "[]",
     correct_answer |-> Get(q, "correct_answer", "None"),
     topic |-> Get(q, "topic", "General"),
     difficulty |-> difficulty, created_at |-> "now"]

create_questions_batchDropLast(store, docs) ==
    [id \in DOMAIN store \cup {docs[i].id : i \in 1..(Len(docs) - 1)} |->
        IF \E i \in 1..(Len(docs) - 1) : docs[i].id = id
        THEN docs[CHOOSE i \in 1..(Len(docs) - 1) : docs[i].id = id]
        ELSE store[id]]

\* questions.insert_many([q.to_dict() for q in questions])
create_questions_batch(store, docs) ==
    [id \in DOMAIN store \cup {docs[i].id : i \in 1..Len(docs)} |->
        IF \E i \in 1..Len(docs) : docs[i].id = id
        THEN docs[CHOOSE i \in 1..Len(docs) : docs[i].id = id]
        ELSE store[id]]

\* the loop over qtype_count.items() from position k on: batches of size 0 are
\* skipped; after the last one the questions are saved, or, if there are
\* none, the call returns
ToNextBatch(flow, k) ==
    LET order == KeyOrder(flow.question_types)
        rest == {j \in k..Len(order) : flow.qtype_count[order[j]] > 0}
    IN  IF rest # {}
        THEN [flow EXCEPT !.pc = "batch", !.pending = <<>>,
                          !.k = CHOOSE j \in rest : \A l \in rest : j <= l]
        ELSE [flow EXCEPT !.pending = <<>>, !.k = Len(order) + 1,
                          !.pc = IF flow.all_questions = <<>> THEN "done" ELSE "save"]

\* the answers of generate_quiz_questions
FullQuestion == [question |-> "q1", type |-> "multiple_choice", options |-> "o1",
                 correct_answer |-> "a1", topic |-> "t1"]
BareQuestion == [question |-> "q2"]
QuizAnswers ==
    { <<>>, <<Obj(FullQuestion)>>, <<Obj(BareQuestion)>>,
      <<Obj(FullQuestion), Obj(BareQuestion)>>, <<Obj(FullQuestion), NonObj>> }

\* the placeholder question generate_quiz_questions returns when the
\* completion fails, times out twice or cannot be parsed
ErrorQuestion(question_type) ==
    [question |-> "error", type |-> question_type, options |-> "oe",
     correct_answer |-> "0", topic |-> "Error"]

\* what generate_quiz_questions can return for a batch of question_type
GeneratorAnswers(question_type) ==
    QuizAnswers \cup {<<Obj(ErrorQuestion(question_type))>>}

\* generate_qa_pairs up to the first call of the generator
GenerateQaPairs(m, n, types, difficulty) ==
    /\ gp.pc \in {"idle", "done", "raised"}
    /\ gp' = IF ~get_material_by_id(materials, m)
             THEN [IdleGp EXCEPT !.pc = "raised", !.material_id = m,
                                 !.num_questions = n, !.question_types = types,
                                 !.difficulty = difficulty,
                                 !.error = "material_not_found"]
             ELSE ToNextBatch([IdleGp EXCEPT !.material_id = m,
                                             !.num_questions = n,
                                             !.question_types = types,
                                             !.difficulty = difficulty,
                                             !.qtype_count = qtype_count(types, n)], 1)
    /\ UNCHANGED <<ae, up, oc>>
    /\ UNCHANGED qaVars
    /\ UNCHANGED sumVars
    /\ UNCHANGED extVars

\* generate_quiz_questions for the batch at position k
RequestBatch(answer) ==
    /\ gp.pc = "batch"
    /\ LET q_type == KeyOrder(gp.question_types)[gp.k]
           count == gp.qtype_count[q_type]
           asked == [gp EXCEPT !.q_type = q_type,
                               !.requested = Append(@, <<q_type, count>>)]
       IN  /\ qa_calls' = Append(qa_calls, [call |-> "generate_quiz_questions",
                                            question_id |-> "none"])
           /\ gp' = IF answer = <<>>
                    THEN ToNextBatch(asked, gp.k + 1)
                    ELSE [asked EXCEPT !.pc = "convert", !.pending = answer]
    /\ UNCHANGED <<ae, up, oc>>
    /\ UNCHANGED <<materials, questions, feedback, changelog, rf, ev>>
    /\ UNCHANGED sumVars
    /\ UNCHANGED extVars

\* one iteration of the conversion loop: uuid4, QuizQuestion(...) and
\* _log_qa_change(action="created")
ConvertQuestion ==
    /\ gp.pc = "convert"
    /\ LET q == Head(gp.pending)
       IN  IF ~q.isDict \/ gp.difficulty \notin DifficultyLevels
           THEN /\ gp' = [gp EXCEPT !.pc = "raised", !.error = "conversion"]
                /\ UNCHANGED changelog
           ELSE LET doc == QuizQuestionDict(FreshQuestionId, gp.material_id,
                                            q.value, gp.q_type, gp.difficulty)
                    added == [gp EXCEPT !.all_questions = Append(@, doc),
                                        !.pending = Tail(@)]
                IN  /\ changelog' = log_qa_change(changelog, doc.id,
                                                  gp.material_id, "created")
                    /\ gp' = IF Tail(gp.pending) = <<>>
                             THEN ToNextBatch(added, gp.k + 1)
                             ELSE added
    /\ UNCHANGED <<ae, up, oc>>
    /\ UNCHANGED <<materials, questions, feedback, rf, ev, qa_calls>>
    /\ UNCHANGED sumVars
    /\ UNCHANGED extVars

\* create_questions_batch and the return of all_questions
SaveQuestions ==
    /\ gp.pc = "save"
    /\ questions' = create_questions_batch(questions, gp.all_questions)
    /\ gp' = [gp EXCEPT !.pc = "done"]
    /\ UNCHANGED <<ae, up, oc>>
    /\ UNCHANGED <<materials, feedback, changelog, rf, ev, qa_calls>>
    /\ UNCHANGED sumVars
    /\ UNCHANGED extVars

\* ----------------------------------------- generate_adversarial_examples
\* the parameters of QuizQuestion.__init__
QuizQuestionFields == {"id", "material_id", "question", "question_type", "options",
                       "correct_answer", "topic", "difficulty", "created_at"}

\* QuizQuestion.from_dict(doc): cls(**data_copy) raises TypeError on a key
\* that is no parameter of __init__
FromDictRaises(doc) == ~(DOMAIN doc \subseteq QuizQuestionFields)

\* the answers of generate_completion to the adversarial prompt
\*   brackets  a '[' is found and a ']' after it
\*   jsonOk    the part between them is valid JSON; items is the parsed list
AdvRaise == [kind |-> "raise", brackets |-> FALSE, jsonOk |-> FALSE, items |-> <<>>]
AdvText(brackets, jsonOk, items) ==
    [kind |-> "text", brackets |-> brackets, jsonOk |-> jsonOk, items |-> items]

LabelledExample == [question |-> "q3", type |-> "short_answer", options |-> "o3",
                    correct_answer |-> "a3", topic |-> "t3",
                    adversarial_type |-> "misconception"]
UnlabelledExample == [question |-> "q4", correct_answer |-> "a4"]

AdvResponses ==
    {AdvRaise, AdvText(FALSE, FALSE, <<>>), AdvText(TRUE, FALSE, <<>>)}
    \cup {AdvText(TRUE, TRUE, items) :
            items \in {<<>>, <<Obj(LabelledExample)>>, <<Obj(UnlabelledExample)>>,
                       <<Obj(LabelledExample), Obj(UnlabelledExample)>>,
                       <<Obj(UnlabelledExample), NonObj>>}}

\* QuizQuestion(...).to_dict() for an example ex
AdversarialDict(id, material_id, ex) ==
    [id |-> id, material_id |-> material_id,
     question |-> Get(ex, "question", ""),
     question_type |-> Get(ex, "type", "multiple_choice"),
     options |-> Get(ex, "options", "[]"),
     correct_answer |-> Get(ex, "correct_answer", "None"),
     topic |-> Get(ex, "topic", "Adversarial example"),
     difficulty |-> "hard", created_at |-> "now"]

\* question_dict["adversarial_type"]
AdversarialType(ex) == Get(ex, "adversarial_type", "general")

\* q_dict of the saving loop
SavedDict(q) == q @@ [is_adversarial |-> TRUE]

\* questions.insert_one(doc)
insert_one(store, doc) == (doc.id :> doc) @@ store

\* generate_adversarial_examples up to its first store call after the
\* material lookup
GenerateAdversarial(m, base_on_existing) ==
    /\ ae.pc \in {"idle", "done", "raised"}
    /\ ae' = IF ~get_material_by_id(materials, m)
             THEN [IdleAe EXCEPT !.pc = "raised", !.material_id = m,
                                 !.base_on_existing = base_on_existing,
                                 !.error = "material_not_found"]
             ELSE [IdleAe EXCEPT !.pc = IF base_on_existing THEN "find" ELSE "complete",
                                 !.material_id = m,
                                 !.base_on_existing = base_on_existing]
    /\ UNCHANGED <<gp, up, oc>>
    /\ UNCHANGED qaVars
    /\ UNCHANGED sumVars
    /\ UNCHANGED extVars

\* questions.find({"material_id": material_id}) and QuizQuestion.from_dict
FindExisting ==
    /\ ae.pc = "find"
    /\ LET docs == FindQuestions(ae.material_id)
       IN  ae' = IF \E i \in 1..Len(docs) : FromDictRaises(docs[i])
                 THEN [ae EXCEPT !.pc = "raised", !.error = "from_dict"]
                 ELSE [ae EXCEPT !.pc = "complete", !.base_on_existing = docs # <<>>]
    /\ UNCHANGED <<gp, up, oc>>
    /\ UNCHANGED qaVars
    /\ UNCHANGED sumVars
    /\ UNCHANGED extVars

\* generate_completion and the search for the JSON array
CompleteAdversarial(resp) ==
    /\ ae.pc = "complete"
    /\ qa_calls' = Append(qa_calls, [call |-> "adversarial", question_id |-> "none"])
    /\ ae' = IF resp.kind = "raise"
             THEN [ae EXCEPT !.pc = "raised", !.error = "completion"]
             ELSE IF resp.brackets /\ resp.jsonOk /\ resp.items # <<>>
                  THEN [ae EXCEPT !.pc = "convert", !.pending = resp.items]
                  ELSE [ae EXCEPT !.pc = "done", !.returned = <<>>]
    /\ UNCHANGED <<gp, up, oc>>
    /\ UNCHANGED <<materials, questions, feedback, changelog, rf, ev>>
    /\ UNCHANGED sumVars
    /\ UNCHANGED extVars

\* one iteration of the conversion loop: uuid4, QuizQuestion(...), the
\* adversarial metadata and _log_qa_change(action="created"); an exception
\* makes the call return []
ConvertExample ==
    /\ ae.pc = "convert"
    /\ LET ex == Head(ae.pending)
       IN  IF ~ex.isDict
           THEN /\ ae' = [ae EXCEPT !.pc = "done", !.returned = <<>>, !.pending = <<>>]
                /\ UNCHANGED changelog
           ELSE LET doc == AdversarialDict(FreshQuestionId, ae.material_id, ex.value)
                IN  /\ changelog' = log_qa_change(changelog, doc.id,
                                                  ae.material_id, "created")
                    /\ ae' = [ae EXCEPT
                                !.adversarial_questions = Append(@, doc),
                                !.labels = Append(@, AdversarialType(ex.value)),
                                !.pending = Tail(@),
                                !.k = 1,
                                !.pc = IF Tail(ae.pending) = <<>> THEN "save"
                                       ELSE "convert"]
    /\ UNCHANGED <<gp, up, oc>>
    /\ UNCHANGED <<materials, questions, feedback, rf, ev, qa_calls>>
    /\ UNCHANGED sumVars
    /\ UNCHANGED extVars

\* one iteration of the saving loop: questions.insert_one(q_dict); after the
\* last one the call returns adversarial_questions
SaveExample ==
    /\ ae.pc = "save"
    /\ questions' = insert_one(questions, SavedDict(ae.adversarial_questions[ae.k]))
    /\ ae' = IF ae.k = Len(ae.adversarial_questions)
             THEN [ae EXCEPT !.pc = "done", !.returned = ae.adversarial_questions]
             ELSE [ae EXCEPT !.k = ae.k + 1]
    /\ UNCHANGED <<gp, up, oc>>
    /\ UNCHANGED <<materials, feedback, changelog, rf, ev, qa_calls>>
    /\ UNCHANGED sumVars
    /\ UNCHANGED extVars

\* ------------------------------- completion client: generation operations
Operations == {"summarize_text", "generate_quiz_questions", "generate_flashcards"}

\* len(text) of the argument
TextLengths == {100, 4000, 4001, 6001, 12001}

\* the outcomes of generate_completion (declared -> str): the response text, httpx.ReadTimeout,
\* httpx.HTTPStatusError, ValueError for an unknown model, any other exception
CompletionOutcomes == {"text", "read_timeout", "http_error", "model_not_found",
                       "connect_error"}

\* what the response text holds: a JSON array of well-formed items, a JSON
\* array with a malformed item, a bracketed part that is no JSON but that the
\* second cleanup repairs, one that it does not repair, entries in plain
\* text format, nothing usable
TextShapes == {"json_array", "json_bad_items", "repairable", "bad_json",
               "text_entries", "nothing"}

\* text = text[:12000] + "..." for a longer text
LimitedText(len) == IF len > 12000 THEN 12000 + 3 ELSE len

\* the length of the first prompt: the literal part of the template and the
\* text put into it
FirstPrompt(op, len) ==
    CASE op = "summarize_text" -> 283 + len
      [] op = "generate_quiz_questions" -> 633 + Min(len, 8000)
      [] OTHER -> 1388 + Min(len, 8000)

\* the length of the retry prompt: simple_prompt with short_text
RetryPrompt(op, len) ==
    LET limit == IF op = "summarize_text" THEN 6000 ELSE 4000
        short_text == IF len > limit THEN limit + 3 ELSE len
    IN  CASE op = "summarize_text" -> 34 + short_text
          [] op = "generate_quiz_questions" -> 35 + short_text
          [] OTHER -> 431 + short_text

IsTimeoutAnyFailure(outcome) == outcome # "text"

\* except httpx.ReadTimeout
IsTimeout(outcome) == outcome = "read_timeout"

NoValue == [kind |-> "none", detail |-> "none"]
\* the fixed value returned when the retry fails
TimeoutFallback(op) == [kind |-> "timeout_fallback", detail |-> op]
\* the value returned when the first call fails otherwise; it names the error
ErrorValue(op, outcome) == [kind |-> "error", detail |-> outcome]

\* the value the parsing part returns for a response text
ParseValue(op, shape) ==
    CASE op = "summarize_text" ->
            [kind |-> IF shape \in {"json_array", "text_entries", "nothing"}
                      THEN "bullets" ELSE "raw_text",
             detail |-> shape]
      [] op = "generate_quiz_questions" ->
            [kind |-> CASE shape \in {"json_array", "repairable", "text_entries"}
                              -> "questions"
                        [] shape = "json_bad_items" -> "error"
                        [] OTHER -> "parse_fallback",
             detail |-> shape]
      [] OTHER ->
            [kind |-> CASE shape \in {"json_array", "repairable", "text_entries"}
                              -> "flashcards"
                        [] shape = "json_bad_items" -> "error"
                        [] OTHER -> "parse_fallback",
             detail |-> shape]

IdleOc == [pc |-> "idle", op |-> "summarize_text", text_len |-> 0,
           prompts |-> <<>>, outcomes |-> <<>>, value |-> NoValue]

\* the operation up to its first generate_completion call
StartOperation(op, len) ==
    /\ oc.pc \in {"idle", "done"}
    /\ oc' = [IdleOc EXCEPT !.pc = "first", !.op = op,
                            !.text_len = LimitedText(len),
                            !.prompts = <<FirstPrompt(op, LimitedText(len))>>]
    /\ UNCHANGED <<gp, ae, up>>
    /\ UNCHANGED qaVars
    /\ UNCHANGED sumVars
    /\ UNCHANGED extVars

\* the first call ends: a timeout issues the retry, another failure returns
\* the error value, a response is parsed
FirstCallEnds(outcome, shape) ==
    /\ oc.pc = "first"
    /\ oc' = IF IsTimeout(outcome)
             THEN [oc EXCEPT !.pc = "retry",
                             !.outcomes = Append(@, outcome),
                             !.prompts = Append(@, RetryPrompt(oc.op, oc.text_len))]
             ELSE [oc EXCEPT !.pc = "done",
                             !.outcomes = Append(@, outcome),
                             !.value = IF outcome = "text"
                                       THEN ParseValue(oc.op, shape)
                                       ELSE ErrorValue(oc.op, outcome)]
    /\ UNCHANGED <<gp, ae, up>>
    /\ UNCHANGED qaVars
    /\ UNCHANGED sumVars
    /\ UNCHANGED extVars

\* the retry ends: any failure returns the fixed fallback, a response is parsed
RetryEnds(outcome, shape) ==
    /\ oc.pc = "retry"
    /\ oc' = [oc EXCEPT !.pc = "done",
                        !.outcomes = Append(@, outcome),
                        !.value = IF outcome = "text"
                                  THEN ParseValue(oc.op, shape)
                                  ELSE TimeoutFallback(oc.op)]
    /\ UNCHANGED <<gp, ae, up>>
    /\ UNCHANGED qaVars
    /\ UNCHANGED sumVars
    /\ UNCHANGED extVars

\* ----------------------------------------------------------- quiz session
\* most questions in one quiz
MaxQuestions == 2

\* the answer_callback invocations that can be in progress at once
Callbacks == {1, 2}
\* the option indexes of the answer buttons that are tried
Options == {0, 1}

\* QuizView.__init__ for multiple-choice questions with the given correct
\* answers, and the documents the session works on: the attempts collection,
\* the session document, the user profile; shown is what the quiz message
\* shows to the user
QuizViewInit(answers) ==
    [correct_answers |-> answers,
     current_question |-> 0,
     correct_count |-> 0,
     total_count |-> 0,
     shown |-> IF answers # <<>> THEN "buttons" ELSE "none",
     attempts |-> <<>>,
     finish_runs |-> 0,
     session |-> [ended |-> FALSE, correct_answers |-> 0, total_questions |-> 0],
     user |-> [total_questions_answered |-> 0, correct_answers |-> 0,
               session_count |-> 0]]

NoQuiz == QuizViewInit(<<>>)

IdleCb == [pc |-> "idle", q |-> 0, option |-> 0, is_correct |-> FALSE]

\* answer_callback up to create_attempt: the owner check, the read of the
\* current question (IndexError past the last one) and the attempt
AnswerClick(c, owner, option) ==
    /\ cb[c].pc \in {"idle", "done", "raised"}
    /\ qv.shown = "buttons"
    /\ cb' = [cb EXCEPT ![c] =
                IF ~owner
                THEN [IdleCb EXCEPT !.pc = "done"]
                ELSE IF qv.current_question >= Len(qv.correct_answers)
                THEN [IdleCb EXCEPT !.pc = "raised"]
                ELSE [pc |-> "create_attempt", q |-> qv.current_question,
                      option |-> option,
                      is_correct |->
                          option = qv.correct_answers[qv.current_question + 1]]]
    /\ UNCHANGED <<backend, first, qv>>
    /\ UNCHANGED sumVars
    /\ UNCHANGED qaVars
    /\ UNCHANGED restVars

\* create_attempt returns: the attempt is stored, the counters are updated
CreateAttempt(c) ==
    /\ cb[c].pc = "create_attempt"
    /\ qv' = [qv EXCEPT !.attempts = Append(@, cb[c].q),
                        !.correct_count = IF cb[c].is_correct THEN @ + 1 ELSE @,
                        !.total_count = @ + 1]
    /\ cb' = [cb EXCEPT ![c].pc = "edit_message"]
    /\ UNCHANGED <<backend, first>>
    /\ UNCHANGED sumVars
    /\ UNCHANGED qaVars
    /\ UNCHANGED restVars

\* interaction.response.edit_message returns: the message shows the disabled
\* buttons; current_question is advanced; then the pause before the next
\* question, or finish_quiz up to get_session_by_id
EditMessage(c) ==
    /\ cb[c].pc = "edit_message"
    /\ LET last == qv.current_question + 1 >= Len(qv.correct_answers)
       IN  /\ qv' = [qv EXCEPT !.shown = "disabled",
                               !.current_question = @ + 1,
                               !.finish_runs = IF last THEN @ + 1 ELSE @]
           /\ cb' = [cb EXCEPT ![c].pc = IF last THEN "finish_session" ELSE "sleep"]
    /\ UNCHANGED <<backend, first>>
    /\ UNCHANGED sumVars
    /\ UNCHANGED qaVars
    /\ UNCHANGED restVars

\* asyncio.sleep(2) returns: show_next_question up to edit_original_response
\* (IndexError when current_question is past the last question)
Sleep(c) ==
    /\ cb[c].pc = "sleep"
    /\ cb' = [cb EXCEPT ![c].pc = IF qv.current_question >= Len(qv.correct_answers)
                                  THEN "raised" ELSE "show_next"]
    /\ UNCHANGED <<backend, first, qv>>
    /\ UNCHANGED sumVars
    /\ UNCHANGED qaVars
    /\ UNCHANGED restVars

\* edit_original_response of show_next_question returns: the message shows
\* the next question with fresh buttons
ShowNext(c) ==
    /\ cb[c].pc = "show_next"
    /\ qv' = [qv EXCEPT !.shown = "buttons"]
    /\ cb' = [cb EXCEPT ![c].pc = "done"]
    /\ UNCHANGED <<backend, first>>
    /\ UNCHANGED sumVars
    /\ UNCHANGED qaVars
    /\ UNCHANGED restVars

\* finish_quiz: get_session_by_id and update_session
FinishSession(c) ==
    /\ cb[c].pc = "finish_session"
    /\ qv' = [qv EXCEPT !.session = [ended |-> TRUE,
                                     correct_answers |-> qv.correct_count,
                                     total_questions |-> qv.total_count]]
    /\ cb' = [cb EXCEPT ![c].pc = "finish_user"]
    /\ UNCHANGED <<backend, first>>
    /\ UNCHANGED sumVars
    /\ UNCHANGED qaVars
    /\ UNCHANGED restVars

\* finish_quiz: get_user_by_discord_id and update_user
FinishUser(c) ==
    /\ cb[c].pc = "finish_user"
    /\ qv' = [qv EXCEPT !.user =
                 [total_questions_answered |-> @.total_questions_answered + qv.total_count,
                  correct_answers |-> @.correct_answers + qv.correct_count,
                  session_count |-> @.session_count + 1]]
    /\ cb' = [cb EXCEPT ![c].pc = "finish_edit"]
    /\ UNCHANGED <<backend, first>>
    /\ UNCHANGED sumVars
    /\ UNCHANGED qaVars
    /\ UNCHANGED restVars

\* finish_quiz: edit_original_response with the results and the disabled
\* buttons, and the followup message
FinishEdit(c) ==
    /\ cb[c].pc = "finish_edit"
    /\ qv' = [qv EXCEPT !.shown = "disabled"]
    /\ cb' = [cb EXCEPT ![c].pc = "done"]
    /\ UNCHANGED <<backend, first>>
    /\ UNCHANGED sumVars
    /\ UNCHANGED qaVars
    /\ UNCHANGED restVars

\* -------------------------------------------------------- specifications
\* most feedback documents the record flows insert
MaxFeedback == 3
\* most feedback documents in the store when an evaluation starts
MaxRecords == 5

DocLengths == {MinDocLength - 1, MinDocLength, MaxDocLength + 1}

Init ==
    /\ pc = "idle"
    /\ doc_len = 0
    /\ max_points = DefaultMaxPoints
    /\ validation_enabled = TRUE
    /\ topics = NoTopics
    /\ summary_points = <<>>
    /\ replacement_summary = <<>>
    /\ result = EmptyDict
    /\ calls = <<>>
    /\ materials = <<StoredMaterial>>
    /\ questions = [q \in QuestionIds |-> StoredQuestion(q)]
    /\ feedback = <<>>
    /\ changelog = <<>>
    /\ rf = [f \in RecordFlows |-> IdleRf]
    /\ ev = [e \in EvalFlows |-> IdleEv]
    /\ qa_calls = <<>>
    /\ gp = IdleGp
    /\ ae = IdleAe
    /\ up = [u \in UploadFlows |-> IdleUp]
    /\ oc = IdleOc
    /\ backend = NoBackend
    /\ first = NoCall
    /\ qv = NoQuiz
    /\ cb = [c \in Callbacks |-> IdleCb]

\* the summarization pipeline against an arbitrary backend
Next ==
    \/ \E len \in {MinDocLength - 1, MinDocLength}, maxp \in 1..MaxPointsArg,
          enabled \in BOOLEAN : SummarizeDocument(len, maxp, enabled)
    \/ \E resp \in TopicResponses : ExtractTopics(resp)
    \/ \E resp \in GenTexts : GenerateSummary(resp)
    \/ ValidateSummary
    \/ \E resp \in ReplacementTexts : RegenerateSummary(resp)

Spec == Init /\ [][Next]_vars

\* the summarization pipeline with the default max_points against a backend
\* whose validation answers mark every point
NextMarking ==
    \/ \E len \in DocLengths, enabled \in BOOLEAN :
          SummarizeDocument(len, DefaultMaxPoints, enabled)
    \/ \E resp \in TopicResponses : ExtractTopics(resp)
    \/ \E resp \in GenTextsDefault : GenerateSummary(resp)
    \/ ValidateSummaryMarking
    \/ \E resp \in ReplacementTextsDefault : RegenerateSummary(resp)

SpecMarking == Init /\ [][NextMarking]_vars

\* concurrent record_question_feedback flows
NextFeedback ==
    \/ \E f \in RecordFlows, q \in QuestionIds, is_correct \in BOOLEAN,
          is_helpful \in {"true", "false", "null"} :
          RecordFeedback(f, q, is_correct, is_helpful, MaxFeedback)
    \/ \E f \in RecordFlows : FindFeedback(f)
    \/ \E f \in RecordFlows : UpdateMetrics(f)

SpecFeedback == Init /\ [][NextFeedback]_vars

\* the feedback documents a question can have, up to their order
FeedbackKinds ==
    << <<FALSE, "null">>, <<FALSE, "false">>, <<FALSE, "true">>,
       <<TRUE, "null">>, <<TRUE, "false">>, <<TRUE, "true">> >>

RECURSIVE SortedSeqs(_, _)
SortedSeqs(n, k) ==
    IF n = 0 THEN {<<>>}
    ELSE UNION { {Append(t, j) : j \in (IF t = <<>> THEN 1 ELSE t[Len(t)])..k}
                 : t \in SortedSeqs(n - 1, k) }

FeedbackList(q, kinds) ==
    [i \in 1..Len(kinds) |->
        Feedback(q, FeedbackKinds[kinds[i]][1], FeedbackKinds[kinds[i]][2])]

\* the store after sequential record_question_feedback calls
WithMetrics(store, fbs) ==
    [q \in DOMAIN store |->
        LET fb == SelectSeq(fbs, LAMBDA f : f.question_id = q)
        IN  IF fb = <<>> THEN store[q]
            ELSE [quality_metrics |-> [accuracy |-> accuracy(fb),
                                       helpfulness |-> helpfulness(fb),
                                       total_attempts |-> total_attempts(fb)]]
                 @@ store[q]]

InitEval ==
    /\ pc = "idle"
    /\ doc_len = 0
    /\ max_points = DefaultMaxPoints
    /\ validation_enabled = TRUE
    /\ topics = NoTopics
    /\ summary_points = <<>>
    /\ replacement_summary = <<>>
    /\ result = EmptyDict
    /\ calls = <<>>
    /\ materials = <<StoredMaterial>>
    /\ \E n1 \in 0..MaxRecords :
       \E n2 \in 0..(MaxRecords - n1) :
       \E k1 \in SortedSeqs(n1, Len(FeedbackKinds)) :
       \E k2 \in SortedSeqs(n2, Len(FeedbackKinds)) :
          /\ feedback = FeedbackList("Q1", k1) \o FeedbackList("Q2", k2)
          /\ questions = WithMetrics([q \in QuestionIds |-> StoredQuestion(q)], feedback)
    /\ changelog = <<>>
    /\ rf = [f \in RecordFlows |-> IdleRf]
    /\ ev = [e \in EvalFlows |-> IdleEv]
    /\ qa_calls = <<>>
    /\ gp = IdleGp
    /\ ae = IdleAe
    /\ up = [u \in UploadFlows |-> IdleUp]
    /\ oc = IdleOc
    /\ backend = NoBackend
    /\ first = NoCall
    /\ qv = NoQuiz
    /\ cb = [c \in Callbacks |-> IdleCb]

\* one evaluate_and_update_questions call on a store with feedback
NextEval ==
    \/ \E thr \in Thresholds : /\ ev[1].pc = "idle"
                               /\ EvaluateAndUpdate(1, "M1", thr)
    \/ FindQuestionFeedback(1)
    \/ ProcessQuestion(1)
    \/ LogRemoved(1)
    \/ \E resp \in ImproveResponses : ImproveQuestion(1, resp)
    \/ ApplyImprovement(1)
    \/ LogUpdated(1)

SpecEval == InitEval /\ [][NextEval]_vars

\* a store where each question has at most one feedback document
InitRetire ==
    /\ pc = "idle"
    /\ doc_len = 0
    /\ max_points = DefaultMaxPoints
    /\ validation_enabled = TRUE
    /\ topics = NoTopics
    /\ summary_points = <<>>
    /\ replacement_summary = <<>>
    /\ result = EmptyDict
    /\ calls = <<>>
    /\ materials = <<StoredMaterial>>
    /\ \E n1 \in 0..1 :
       \E n2 \in 0..1 :
       \E k1 \in SortedSeqs(n1, Len(FeedbackKinds)) :
       \E k2 \in SortedSeqs(n2, Len(FeedbackKinds)) :
          /\ feedback = FeedbackList("Q1", k1) \o FeedbackList("Q2", k2)
          /\ questions = WithMetrics([q \in QuestionIds |-> StoredQuestion(q)], feedback)
    /\ changelog = <<>>
    /\ rf = [f \in RecordFlows |-> IdleRf]
    /\ ev = [e \in EvalFlows |-> IdleEv]
    /\ qa_calls = <<>>
    /\ gp = IdleGp
    /\ ae = IdleAe
    /\ up = [u \in UploadFlows |-> IdleUp]
    /\ oc = IdleOc
    /\ backend = NoBackend
    /\ first = NoCall
    /\ qv = NoQuiz
    /\ cb = [c \in Callbacks |-> IdleCb]

\* two evaluate_and_update_questions calls on one material, side by side
NextEvalTwo ==
    \/ \E e \in EvalFlows, thr \in Thresholds :
          /\ ev[e].pc = "idle"
          /\ EvaluateAndUpdate(e, "M1", thr)
    \/ \E e \in EvalFlows : FindQuestionFeedback(e)
    \/ \E e \in EvalFlows : ProcessQuestion(e)
    \/ \E e \in EvalFlows : LogRemoved(e)
    \/ \E e \in EvalFlows :
          /\ ev[e].pc = "improve"
          /\ \E resp \in ImproveResponses : ImproveQuestion(e, resp)
    \/ \E e \in EvalFlows : ApplyImprovement(e)
    \/ \E e \in EvalFlows : LogUpdated(e)

SpecEvalTwo == InitRetire /\ [][NextEvalTwo]_vars

\* concurrent uploads
NextUpload ==
    \/ \E u \in UploadFlows, user \in Users, registered \in BOOLEAN,
          has_source \in BOOLEAN, processed \in BOOLEAN, hash \in Hashes :
          Upload(u, user, registered, has_source, processed, hash)
    \/ \E u \in UploadFlows : CheckExisting(u)
    \/ \E u \in UploadFlows : CreateMaterial(u)

SpecUpload == Init /\ [][NextUpload]_vars

\* question generation for a stored or a missing material
NextGenerate ==
    \/ \E m \in {"M1", MissingMaterial}, n \in 0..MaxCount, types \in TypeLists,
          difficulty \in Difficulties :
          /\ gp.pc = "idle"
          /\ GenerateQaPairs(m, n, types, difficulty)
    \/ /\ gp.pc = "batch"
       /\ \E answer \in GeneratorAnswers(KeyOrder(gp.question_types)[gp.k]) :
             RequestBatch(answer)
    \/ ConvertQuestion
    \/ SaveQuestions

SpecGenerate == Init /\ [][NextGenerate]_vars

\* a question as generate_qa_pairs stores it
PlainQuestion(id) == QuizQuestionDict(id, "M1", FullQuestion, "multiple_choice", "medium")

\* the question store before an adversarial generation: the stored questions,
\* questions fresh from generate_qa_pairs, or none
InitAdversarial ==
    /\ pc = "idle"
    /\ doc_len = 0
    /\ max_points = DefaultMaxPoints
    /\ validation_enabled = TRUE
    /\ topics = NoTopics
    /\ summary_points = <<>>
    /\ replacement_summary = <<>>
    /\ result = EmptyDict
    /\ calls = <<>>
    /\ materials = <<StoredMaterial>>
    /\ questions \in {[q \in QuestionIds |-> StoredQuestion(q)],
                      [q \in QuestionIds |-> PlainQuestion(q)],
                      [q \in {"Q1"} |-> PlainQuestion(q)],
                      [q \in {} |-> PlainQuestion(q)]}
    /\ feedback = <<>>
    /\ changelog = <<>>
    /\ rf = [f \in RecordFlows |-> IdleRf]
    /\ ev = [e \in EvalFlows |-> IdleEv]
    /\ qa_calls = <<>>
    /\ gp = IdleGp
    /\ ae = IdleAe
    /\ up = [u \in UploadFlows |-> IdleUp]
    /\ oc = IdleOc
    /\ backend = NoBackend
    /\ first = NoCall
    /\ qv = NoQuiz
    /\ cb = [c \in Callbacks |-> IdleCb]

\* adversarial generation for a stored or a missing material
NextAdversarial ==
    \/ \E m \in {"M1", MissingMaterial}, base_on_existing \in BOOLEAN :
          /\ ae.pc = "idle"
          /\ GenerateAdversarial(m, base_on_existing)
    \/ FindExisting
    \/ \E resp \in AdvResponses : CompleteAdversarial(resp)
    \/ ConvertExample
    \/ SaveExample

SpecAdversarial == InitAdversarial /\ [][NextAdversarial]_vars

\* the default question_types of generate_qa_pairs
DefaultTypes == <<"multiple_choice", "short_answer">>

\* both generation operations, side by side, for a stored or a missing material
NextLookup ==
    \/ \E m \in {"M1", MissingMaterial}, n \in 0..1 :
          /\ gp.pc = "idle"
          /\ GenerateQaPairs(m, n, DefaultTypes, "medium")
    \/ /\ gp.pc = "batch"
       /\ \E answer \in GeneratorAnswers(KeyOrder(gp.question_types)[gp.k]) :
             RequestBatch(answer)
    \/ ConvertQuestion
    \/ SaveQuestions
    \/ \E m \in {"M1", MissingMaterial}, base_on_existing \in BOOLEAN :
          /\ ae.pc = "idle"
          /\ GenerateAdversarial(m, base_on_existing)
    \/ FindExisting
    \/ \E resp \in AdvResponses : CompleteAdversarial(resp)
    \/ ConvertExample
    \/ SaveExample

SpecLookup == InitAdversarial /\ [][NextLookup]_vars

\* the generation operations of the completion client
NextClient ==
    \/ \E op \in Operations, len \in TextLengths : StartOperation(op, len)
    \/ \E outcome \in CompletionOutcomes, shape \in TextShapes :
          FirstCallEnds(outcome, shape)
    \/ \E outcome \in CompletionOutcomes, shape \in TextShapes :
          RetryEnds(outcome, shape)

SpecClient == Init /\ [][NextClient]_vars

\* two calls of summarize_document, validation disabled, on a fixed backend
InitTwice ==
    /\ pc = "idle"
    /\ doc_len = 0
    /\ max_points = DefaultMaxPoints
    /\ validation_enabled = TRUE
    /\ topics = NoTopics
    /\ summary_points = <<>>
    /\ replacement_summary = <<>>
    /\ result = EmptyDict
    /\ calls = <<>>
    /\ materials = <<StoredMaterial>>
    /\ questions = [q \in QuestionIds |-> StoredQuestion(q)]
    /\ feedback = <<>>
    /\ changelog = <<>>
    /\ rf = [f \in RecordFlows |-> IdleRf]
    /\ ev = [e \in EvalFlows |-> IdleEv]
    /\ qa_calls = <<>>
    /\ gp = IdleGp
    /\ ae = IdleAe
    /\ up = [u \in UploadFlows |-> IdleUp]
    /\ oc = IdleOc
    /\ backend \in FixedBackends
    /\ first = NoCall
    /\ qv = NoQuiz
    /\ cb = [c \in Callbacks |-> IdleCb]

NextTwice ==
    \/ \E len \in DocLengths, maxp \in 1..MaxPointsArg :
          /\ pc = "idle"
          /\ SummarizeDocument(len, maxp, FALSE)
    \/ ExtractTopics(backend.topics)
    \/ /\ pc = "generate"
       /\ GenerateSummary(backend.summary[topics.key_topics])
    \/ SummarizeAgain

SpecTwice == InitTwice /\ [][NextTwice]_vars

\* one quiz session of multiple-choice questions
InitQuiz ==
    /\ pc = "idle"
    /\ doc_len = 0
    /\ max_points = DefaultMaxPoints
    /\ validation_enabled = TRUE
    /\ topics = NoTopics
    /\ summary_points = <<>>
    /\ replacement_summary = <<>>
    /\ result = EmptyDict
    /\ calls = <<>>
    /\ materials = <<StoredMaterial>>
    /\ questions = [q \in QuestionIds |-> StoredQuestion(q)]
    /\ feedback = <<>>
    /\ changelog = <<>>
    /\ rf = [f \in RecordFlows |-> IdleRf]
    /\ ev = [e \in EvalFlows |-> IdleEv]
    /\ qa_calls = <<>>
    /\ gp = IdleGp
    /\ ae = IdleAe
    /\ up = [u \in UploadFlows |-> IdleUp]
    /\ oc = IdleOc
    /\ backend = NoBackend
    /\ first = NoCall
    /\ \E n \in 1..MaxQuestions :
       \E answers \in [1..n -> Options] : qv = QuizViewInit(answers)
    /\ cb = [c \in Callbacks |-> IdleCb]

NextQuiz ==
    \/ \E c \in Callbacks, owner \in BOOLEAN, option \in Options :
          AnswerClick(c, owner, option)
    \/ \E c \in Callbacks : CreateAttempt(c)
    \/ \E c \in Callbacks : EditMessage(c)
    \/ \E c \in Callbacks : Sleep(c)
    \/ \E c \in Callbacks : ShowNext(c)
    \/ \E c \in Callbacks : FinishSession(c)
    \/ \E c \in Callbacks : FinishUser(c)
    \/ \E c \in Callbacks : FinishEdit(c)

SpecQuiz == InitQuiz /\ [][NextQuiz]_vars

\* ------------------------------------------- properties: summarization
Returned == pc = "done"

Flag(name) == name \in DOMAIN result /\ result[name]

Validated == "validation" \in DOMAIN result

\* the validation answer had one entry per initial point and k of them unsupported
Marked(k) ==
    /\ Validated
    /\ "point_analysis" \in DOMAIN result.validation
    /\ Len(result.validation.point_analysis) = Len(summary_points)
    /\ \A i \in 1..Len(summary_points) :
          /\ DOMAIN result.validation.point_analysis[i] = {"point", "supported"}
          /\ result.validation.point_analysis[i].point = summary_points[i]
    /\ Cardinality({i \in 1..Len(summary_points) :
                      ~result.validation.point_analysis[i].supported}) = k

Regenerated == \E i \in 1..Len(calls) : calls[i] = "regenerate"

\* C1 as stated: when validation marks k > 0 of the n initial points as
\* unsupported, the result is filtered with n-k points if n-k >= 0.7*n and
\* has regenerated=true otherwise.
C1_FilterOrRegenerate ==
    Returned =>
        \A k \in 1..Len(summary_points) :
            Marked(k) =>
                LET n == Len(summary_points)
                IN  IF 10 * (n - k) >= 7 * n
                    THEN /\ Flag("filtered")
                         /\ "regenerated" \notin DOMAIN result
                         /\ Len(result.summary) = n - k
                    ELSE Flag("regenerated")

\* C1 (amended): when validation marks k > 0 of the n initial points as
\* unsupported, the result is filtered with exactly n-k points and no
\* regenerated flag if n-k >= 0.7*n; otherwise regeneration runs, and the
\* result has regenerated=true exactly when regeneration returned at least
\* one point.
C1_FilterOrRegenerateIfAny ==
    Returned =>
        \A k \in 1..Len(summary_points) :
            Marked(k) =>
                LET n == Len(summary_points)
                IN  IF 10 * (n - k) >= 7 * n
                    THEN /\ Flag("filtered")
                         /\ "regenerated" \notin DOMAIN result
                         /\ Len(result.summary) = n - k
                         /\ ~Regenerated
                    ELSE /\ Regenerated
                         /\ "filtered" \notin DOMAIN result
                         /\ Flag("regenerated") <=> replacement_summary # <<>>

C1_Witness ==
    /\ Returned
    /\ Len(summary_points) = 10
    /\ Marked(3)
    /\ Flag("filtered")
    /\ Len(result.summary) = 7

\* C2: every returned summary has points of at most 100 characters and at
\* most max_points points.
C2_PointsBounded ==
    Returned =>
        /\ Len(result.summary) <= max_points
        /\ \A i \in 1..Len(result.summary) : Len(result.summary[i]) <= 100

\* C3: a document shorter than 100 characters gets the failure result with
\* the placeholder message and no completion call; a document of exactly
\* 100 characters proceeds to topic extraction.
C3_TooShortNoCalls ==
    /\ (pc # "idle" /\ doc_len < 100) =>
          /\ Returned
          /\ result.success = FALSE
          /\ result.summary = <<MsgTooShort>>
          /\ calls = <<>>
    /\ (pc # "idle" /\ doc_len = 100) =>
          \/ pc = "topics" /\ calls = <<>>
          \/ calls # <<>> /\ calls[1] = "topics"

C3_Witness ==
    /\ Returned
    /\ doc_len = 99
    /\ result.success = FALSE
    /\ calls = <<>>

\* C4: summarize_document never raises to its caller.
C4_NeverRaises == pc # "raised"

\* C5 as stated: when the regenerate branch is taken and regeneration
\* returns no points, the returned summary is empty.
C5_EmptyAfterFailedRegeneration ==
    (Returned /\ Regenerated /\ replacement_summary = <<>>) => result.summary = <<>>

\* C5 (amended): when the regenerate branch is taken and regeneration fails
\* or returns no points, the returned summary is the initial summary,
\* unchanged, and neither regenerated nor filtered is set.
C5_InitialAfterFailedRegeneration ==
    (Returned /\ Regenerated /\ replacement_summary = <<>>) =>
        /\ result.summary = summary_points
        /\ "regenerated" \notin DOMAIN result
        /\ "filtered" \notin DOMAIN result

C5_Witness ==
    /\ Returned
    /\ Regenerated
    /\ replacement_summary = <<>>
    /\ result.summary = summary_points
    /\ Len(summary_points) >= 2

\* C10: at most one of regenerated and filtered is true, and neither is set
\* (the initial summary is returned unchanged) when validation is disabled
\* or reports no invalid point.
C10_FlagsExclusive ==
    Returned =>
        /\ ~(Flag("regenerated") /\ Flag("filtered"))
        /\ (result.success /\ (~validation_enabled
                               \/ (Validated /\ result.validation.invalid_points_count = 0))) =>
              /\ "regenerated" \notin DOMAIN result
              /\ "filtered" \notin DOMAIN result
              /\ result.summary = summary_points

C10_Witness ==
    /\ Returned
    /\ validation_enabled
    /\ Validated
    /\ "point_analysis" \in DOMAIN result.validation
    /\ Len(result.validation.point_analysis) >= 2
    /\ result.validation.invalid_points_count = 0
    /\ result.summary = summary_points

CallOrder == <<"topics", "generate", "validate", "regenerate">>

\* the share of the initial points that the validation did not return as
\* supported is above 30%
RejectedOverThirty ==
    /\ Validated
    /\ LET n == Len(summary_points)
           v == Len(SelectSeq(Get(result.validation, "point_analysis", <<>>), Supported))
       IN  10 * (n - v) > 3 * n

\* C22: an invocation of summarize_document issues at most four completion
\* calls, in the order topic extraction, initial generation, validation,
\* regeneration, each at most once, and has returned after the fourth;
\* regeneration is issued only after a validation that rejected more than
\* 30% of the points, and no validation follows a regeneration.
C22_CallOrder ==
    /\ Len(calls) <= Len(CallOrder)
    /\ calls = SubSeq(CallOrder, 1, Len(calls))
    /\ Len(calls) = Len(CallOrder) => Returned
    /\ pc = "regenerate" \/ Regenerated => RejectedOverThirty
    /\ pc = "validate" => ~Regenerated

C22_Witness ==
    /\ Returned
    /\ calls = CallOrder
    /\ Flag("regenerated")
    /\ Len(summary_points) = 2

\* C23: if the validation completion call fails, it is not retried and
\* summarize_document returns the initial summary unchanged, with neither
\* filtered nor regenerated set and a validation record that reports
\* invalid_points_count = 0.
C23_ValidationFailureAbsorbed ==
    [][(pc = "validate" /\ ValidateAndDecide(RaiseResp)) =>
          /\ pc' = "done"
          /\ calls' = <<"topics", "generate", "validate">>
          /\ result'.summary = summary_points
          /\ "filtered" \notin DOMAIN result'
          /\ "regenerated" \notin DOMAIN result'
          /\ result'.validation.invalid_points_count = 0]_vars

C23_Witness ==
    /\ Returned
    /\ Validated
    /\ "error" \in DOMAIN result.validation
    /\ result.validation.invalid_points_count = 0
    /\ result.summary = summary_points
    /\ Len(summary_points) = 2

\* a is b with some elements left out
RECURSIVE IsSubsequence(_, _)
IsSubsequence(a, b) ==
    IF a = <<>> THEN TRUE
    ELSE IF b = <<>> THEN FALSE
    ELSE IF Head(a) = Head(b) THEN IsSubsequence(Tail(a), Tail(b))
    ELSE IsSubsequence(a, Tail(b))

\* C25: when summarize_document returns filtered=true, the final summary is a
\* sub-sequence of the initial summary, and every returned point is one that
\* the validation marked supported.
C25_FilteredIsSubsequence ==
    (Returned /\ Flag("filtered")) =>
        /\ IsSubsequence(result.summary, summary_points)
        /\ \A i \in 1..Len(result.summary) :
              \E j \in 1..Len(result.validation.point_analysis) :
                  /\ Supported(result.validation.point_analysis[j])
                  /\ result.validation.point_analysis[j].point = result.summary[i]

\* ------------------------------------------- properties: QA quality loop
NCorrect(fb) == Cardinality({i \in DOMAIN fb : fb[i].is_correct})
NRated(fb) == Cardinality({i \in DOMAIN fb : fb[i].is_helpful \in {"true", "false"}})
NHelpful(fb) == Cardinality({i \in DOMAIN fb : fb[i].is_helpful = "true"})

\* 0.4 * correct/n + 0.6 * helpful/rated < thr/100, helpfulness 0 without ratings
ScoreBelow(fb, thr) ==
    IF NRated(fb) = 0
    THEN 40 * NCorrect(fb) < thr * Len(fb)
    ELSE 40 * NCorrect(fb) * NRated(fb) + 60 * NHelpful(fb) * Len(fb)
            < thr * Len(fb) * NRated(fb)

\* helpful/rated < 0.2, helpfulness 0 without ratings
HelpBelowFifth(fb) == NRated(fb) = 0 \/ 5 * NHelpful(fb) < NRated(fb)

\* question j of the evaluation's list has been through the processing loop
EvProcessed(j) ==
    /\ ev[1].pc \in {"process", "log_removed", "improve", "update", "log_updated",
                     "done", "raised"}
    /\ j < ev[1].i

Logged(q, action) ==
    Cardinality({i \in DOMAIN changelog : /\ i > ev[1].base
                                          /\ changelog[i].question_id = q
                                          /\ changelog[i].action = action})

ImproveCalled(q) == \E i \in DOMAIN qa_calls : qa_calls[i].question_id = q

\* C6: a question below threshold with helpfulness < 0.2 is deleted and gets
\* exactly one removed entry; one below threshold with helpfulness >= 0.2
\* gets one updated entry or none and is not removed; never both.
C6_RemoveOrUpdate ==
    \A j \in 1..Len(ev[1].questions) :
        EvProcessed(j) =>
            LET q == ev[1].questions[j].id
                fb == ev[1].all_feedback[q]
            IN  (fb # <<>> /\ ScoreBelow(fb, ev[1].threshold)) =>
                    /\ ~(Logged(q, "removed") > 0 /\ Logged(q, "updated") > 0)
                    /\ IF HelpBelowFifth(fb)
                       THEN /\ q \notin DOMAIN questions
                            /\ Logged(q, "removed") = 1
                            /\ Logged(q, "updated") = 0
                       ELSE /\ q \in DOMAIN questions
                            /\ Logged(q, "removed") = 0
                            /\ Logged(q, "updated") <= 1

C6_Witness ==
    /\ ev[1].pc = "done"
    /\ ev[1].stats.removed = 1
    /\ ev[1].stats.updated = 1
    /\ Len(changelog) = 2

\* C7: with n >= 1 feedback records the evaluation removes or improves the
\* question only when 0.4*correct/n + 0.6*helpful/rated < threshold; with 5
\* records, 2 correct, ratings [true, false, true] and threshold 0.3 the
\* question is neither retired nor improved.
C7_ScoreDecides ==
    \A j \in 1..Len(ev[1].questions) :
        EvProcessed(j) =>
            LET q == ev[1].questions[j].id
                fb == ev[1].all_feedback[q]
                acted == q \notin DOMAIN questions \/ ImproveCalled(q)
            IN  fb # <<>> =>
                    /\ acted <=> ScoreBelow(fb, ev[1].threshold)
                    /\ ~ScoreBelow(fb, ev[1].threshold) =>
                          /\ q \in DOMAIN questions
                          /\ questions[q] = ev[1].questions[j]
                          /\ Logged(q, "removed") + Logged(q, "updated") = 0
                    /\ (/\ Len(fb) = 5 /\ NCorrect(fb) = 2 /\ NRated(fb) = 3
                        /\ NHelpful(fb) = 2 /\ ev[1].threshold = 30) => ~acted

C7_Witness ==
    /\ ev[1].pc = "done"
    /\ ev[1].threshold = 30
    /\ LET fb == ev[1].all_feedback["Q1"]
       IN  /\ Len(fb) = 5 /\ NCorrect(fb) = 2 /\ NRated(fb) = 3 /\ NHelpful(fb) = 2
    /\ "Q1" \in DOMAIN questions
    /\ ~ImproveCalled("Q1")
    /\ ev[1].stats.no_action = 2

\* the step handled the current question as no action: the store and the
\* changelog are as before and the loop moved on with no_action counted
NoActionStep ==
    /\ questions' = questions
    /\ changelog' = changelog
    /\ ev'[1].stats = Bump(ev[1].stats, "no_action")
    /\ ev'[1].i = ev[1].i + 1
    /\ ev'[1].pc \in {"process", "done"}

\* the fields the improvement prompt asks for
ExpectedFields == {"question", "type", "options", "correct_answer", "topic",
                   "improvement_notes"}

\* no JSON object found, or invalid JSON
NotParsed(resp) == resp.kind = "text" /\ (~resp.braces \/ ~resp.jsonOk)

\* C16 as stated: if the improvement response has no JSON object, is invalid
\* JSON, or is an object without the expected fields, the question is left
\* unchanged, no changelog entry is written and it is counted as no_action.
C16_UnparsedIsNoAction ==
    [][\A resp \in ImproveResponses :
          (/\ ImproveQuestion(1, resp)
           /\ \/ NotParsed(resp)
              \/ /\ resp.kind = "text"
                 /\ ~(ExpectedFields \subseteq DOMAIN resp.obj))
          => NoActionStep]_vars

\* C16, amended: if the improvement response has no JSON object or is invalid
\* JSON, the question is left unchanged, no changelog entry is written and it
\* is counted as no_action.
C16_NotParsedIsNoAction ==
    [][\A resp \in ImproveResponses :
          (ImproveQuestion(1, resp) /\ NotParsed(resp)) => NoActionStep]_vars

C16_Witness ==
    /\ ev[1].pc = "done"
    /\ \E q \in QuestionIds :
          /\ ImproveCalled(q)
          /\ Logged(q, "updated") = 0
          /\ q \in DOMAIN questions
    /\ ev[1].stats.no_action >= 1

\* C17: a failure of the completion backend while improving one question does
\* not abort evaluate_and_update_questions: the question is counted as
\* no_action and the loop goes on to the remaining questions or returns.
C17_BackendFailureTolerated ==
    [][ImproveQuestion(1, ImproveRaise) => NoActionStep]_vars

\* C19: a question with zero feedback records is neither modified nor
\* deleted, gets no changelog entry and no completion call, and is counted as
\* no_action, for every threshold.
C19_NoFeedbackNoAction ==
    /\ [](\A j \in 1..Len(ev[1].questions) :
            EvProcessed(j) =>
                LET q == ev[1].questions[j].id
                IN  ev[1].all_feedback[q] = <<>> =>
                        /\ q \in DOMAIN questions
                        /\ questions[q] = ev[1].questions[j]
                        /\ Logged(q, "removed") + Logged(q, "updated") = 0
                        /\ ~ImproveCalled(q))
    /\ [][(/\ ProcessQuestion(1)
           /\ ev[1].all_feedback[ev[1].questions[ev[1].i].id] = <<>>)
          => NoActionStep]_vars

C19_Witness ==
    /\ ev[1].pc = "done"
    /\ ev[1].all_feedback["Q1"] = <<>>
    /\ ev[1].all_feedback["Q2"] # <<>>
    /\ "Q2" \notin DOMAIN questions
    /\ ev[1].stats.no_action = 1

\* the fields an improvement may set
Improvable == {"question", "topic", "options", "correct_answer",
               "improvement_notes", "updated_at"}

\* the fields an improvement must keep
Kept == {"id", "material_id", "question_type", "difficulty", "quality_metrics",
         "version"}

\* C24: a successful improvement updates the question in place and changes
\* only question, topic, options, correct_answer, improvement_notes and
\* updated_at; id, material_id, question_type, difficulty, quality_metrics
\* and version are unchanged, and options change only for a multiple_choice
\* question.
C24_ImprovementFrame ==
    [][ApplyImprovement(1) =>
          LET q == ev[1].questions[ev[1].i].id
          IN  /\ DOMAIN questions' = DOMAIN questions
              /\ \A x \in DOMAIN questions \ {q} : questions'[x] = questions[x]
              /\ q \in DOMAIN questions =>
                    /\ DOMAIN questions'[q] \ Improvable = DOMAIN questions[q] \ Improvable
                    /\ \A f \in DOMAIN questions[q] \ Improvable :
                          questions'[q][f] = questions[q][f]
                    /\ Kept \subseteq DOMAIN questions'[q]
                    /\ questions[q].question_type # "multiple_choice" =>
                          Get(questions'[q], "options", "absent")
                              = Get(questions[q], "options", "absent")]_vars

C24_Witness ==
    /\ ev[1].pc = "done"
    /\ "Q2" \in DOMAIN questions
    /\ questions["Q2"].question = "q1"
    /\ questions["Q2"].improvement_notes = "n1"
    /\ questions["Q2"].options = "none"
    /\ questions["Q2"].question_type = "short_answer"
    /\ questions["Q2"].version = 1
    /\ Logged("Q2", "updated") = 1

RfQuiescent == \A f \in RecordFlows : rf[f].pc \in {"idle", "done"}

EntriesFor(q) == Cardinality({i \in DOMAIN changelog : changelog[i].question_id = q})

\* C8: every operation that mutates or deletes a stored question appends
\* exactly one ChangelogEntry for it; for the quality-metrics update of
\* record_question_feedback: once the flows have completed, a question has
\* one entry per recorded feedback.
C8_EveryMutationLogged ==
    RfQuiescent =>
        \A q \in DOMAIN questions :
            "quality_metrics" \in DOMAIN questions[q] =>
                EntriesFor(q) = Len(FeedbackOf(q))

\* C9: once every started record_question_feedback flow has completed, the
\* stored quality_metrics of a question equal the values computed from all
\* the feedback records that reference it.
C9_MetricsMatchFeedback ==
    RfQuiescent =>
        \A q \in DOMAIN questions :
            LET fb == FeedbackOf(q)
            IN  fb # <<>> =>
                    /\ "quality_metrics" \in DOMAIN questions[q]
                    /\ LET m == questions[q].quality_metrics
                       IN  /\ m.total_attempts = Len(fb)
                           /\ m.accuracy[1] * Len(fb) = NCorrect(fb) * m.accuracy[2]
                           /\ IF NRated(fb) = 0
                              THEN m.helpfulness[1] = 0
                              ELSE m.helpfulness[1] * NRated(fb)
                                      = NHelpful(fb) * m.helpfulness[2]

\* ------------------------------------------------- properties: upload
\* C12: for one user, at most one stored material per content fingerprint,
\* also when upload flows interleave.
C12_OneMaterialPerFingerprint ==
    \A i, j \in 1..Len(materials) :
        (/\ materials[i].user_id = materials[j].user_id
         /\ materials[i].content_hash = materials[j].content_hash) => i = j

\* ------------------------------------ properties: topic extraction
\* the structured completion raised, or it yielded neither subject areas nor
\* key topics
TopicsFailedOrEmpty(resp) ==
    \/ resp.kind = "raise"
    \/ /\ resp.kind = "dict"
       /\ Get(resp.value, "subject_areas", <<>>) = <<>>
       /\ Get(resp.value, "key_topics", <<>>) = <<>>

\* C11: whenever topic extraction fails or yields neither subject areas nor
\* key topics, the topics summarize_document continues with (passed to summary
\* generation and put in the result) are the fixed generic topic set.
C11_DefaultTopicsOnFailure ==
    [][\A resp \in TopicResponses :
          (TopicsFailedOrEmpty(resp) /\ ExtractTopics(resp)) => topics' = DefaultTopics]_vars

\* ------------------------------------------- properties: generation
RECURSIVE SumOver(_, _)
SumOver(f, keys) ==
    IF keys = {} THEN 0
    ELSE LET x == CHOOSE y \in keys : TRUE IN f[x] + SumOver(f, keys \ {x})

\* the batches of positive size, in the order of the keys
PositiveBatches(flow) ==
    LET order == KeyOrder(flow.question_types)
        pairs == [j \in 1..Len(order) |-> <<order[j], flow.qtype_count[order[j]]>>]
    IN  SelectSeq(pairs, LAMBDA b : b[2] > 0)

\* the batch sizes sum to count, differ pairwise by at most one, the larger
\* ones go to the earliest types, and on a normal return the batches requested
\* are those of positive size
EvenSplit(flow) ==
    LET types == flow.question_types
        sizes == flow.qtype_count
    IN  /\ SumOver(sizes, DOMAIN sizes) = flow.num_questions
        /\ \A a, b \in DOMAIN sizes : sizes[a] - sizes[b] <= 1
        /\ \A i, j \in 1..Len(types) : i < j => sizes[types[i]] >= sizes[types[j]]
        /\ flow.pc = "done" => flow.requested = PositiveBatches(flow)

Split == gp.pc \notin {"idle"} /\ gp.error # "material_not_found"

DistinctTypes(types) == Len(KeyOrder(types)) = Len(types)

\* C14 as stated: for every count >= 0 and every non-empty list of question
\* types, the batch sizes requested sum to count, differ pairwise by at most
\* one, and the larger batches go to the earliest types.
C14_EvenSplit == Split => EvenSplit(gp)

\* C14, amended: the same for every non-empty list of pairwise distinct
\* question types.
C14_EvenSplitDistinctTypes ==
    (Split /\ DistinctTypes(gp.question_types)) => EvenSplit(gp)

C14_Witness ==
    /\ gp.pc = "done"
    /\ Len(gp.question_types) = 3
    /\ DistinctTypes(gp.question_types)
    /\ gp.num_questions = 4
    /\ Len(gp.requested) = 3
    /\ gp.requested[1][2] = 2

CreatedEntries(id) ==
    {k \in 1..Len(changelog) : /\ changelog[k].question_id = id
                               /\ changelog[k].action = "created"}

\* C13: after generate_qa_pairs returns normally, every returned question has
\* an id no other question has, is in the question store, and has exactly one
\* `created` changelog entry.
C13_ReturnedQuestionsStored ==
    gp.pc = "done" =>
        \A i \in 1..Len(gp.all_questions) :
            LET doc == gp.all_questions[i]
            IN  /\ doc.id \notin QuestionIds
                /\ \A j \in 1..Len(gp.all_questions) :
                      gp.all_questions[j].id = doc.id => j = i
                /\ doc.id \in DOMAIN questions
                /\ questions[doc.id] = doc
                /\ Cardinality(CreatedEntries(doc.id)) = 1

C13_Witness ==
    /\ gp.pc = "done"
    /\ Len(gp.requested) >= 2
    /\ Len(gp.all_questions) >= 3

\* C15: every question generate_adversarial_examples persists has
\* is_adversarial = true, difficulty = hard and the adversarial_type the model
\* gave for it, or "general" when it gave none.
C15_AdversarialTags ==
    \A i \in 1..Len(ae.adversarial_questions) :
        LET id == ae.adversarial_questions[i].id
        IN  id \in DOMAIN questions =>
                /\ Get(questions[id], "is_adversarial", FALSE)
                /\ questions[id].difficulty = "hard"
                /\ "adversarial_type" \in DOMAIN questions[id]
                /\ questions[id].adversarial_type = ae.labels[i]

\* the call failed on the material lookup and left the question store, the
\* changelog and the list of completion calls as they were
FailedOnLookup(flow) ==
    /\ flow.pc = "raised"
    /\ flow.error = "material_not_found"
    /\ questions' = questions
    /\ changelog' = changelog
    /\ qa_calls' = qa_calls

\* C20: generate_qa_pairs and generate_adversarial_examples called with a
\* material_id that is not in the store fail before any completion call and
\* leave the question store and the changelog unchanged.
C20_MissingMaterialFails ==
    [][/\ \A n \in 0..MaxCount, types \in TypeLists, difficulty \in Difficulties :
             GenerateQaPairs(MissingMaterial, n, types, difficulty)
                 => FailedOnLookup(gp')
       /\ \A base_on_existing \in BOOLEAN :
             GenerateAdversarial(MissingMaterial, base_on_existing)
                 => FailedOnLookup(ae')]_vars

C20_Witness ==
    /\ gp.pc = "raised"
    /\ gp.error = "material_not_found"
    /\ ae.pc = "raised"
    /\ ae.error = "material_not_found"
    /\ \A i \in 1..Len(materials) : materials[i].id # MissingMaterial

\* ------------------------------------- properties: completion client
\* C18: a timeout of the first completion call triggers exactly one retry with
\* a shorter prompt; a failed retry returns the fixed fallback value; another
\* failure of the first call is not retried; an invocation issues at most two
\* completion calls and returns a value in every case.
C18_OneShortenedRetry ==
    LET n == Len(oc.prompts)
        o == oc.outcomes
    IN  /\ n <= 2
        /\ oc.pc \in {"idle", "first", "retry", "done"}
        /\ oc.pc = "first" => n = 1 /\ o = <<>>
        /\ oc.pc = "retry" => n = 2 /\ o = <<"read_timeout">>
        /\ oc.pc = "done" =>
              /\ oc.value # NoValue
              /\ Len(o) = n
              /\ o[1] = "read_timeout" <=> n = 2
              /\ n = 2 => /\ oc.prompts[2] < oc.prompts[1]
                          /\ o[2] # "text" => oc.value = TimeoutFallback(oc.op)
              /\ o[1] \notin {"text", "read_timeout"} =>
                    oc.value = ErrorValue(oc.op, o[1])

C18_Witness ==
    /\ oc.pc = "done"
    /\ oc.op = "generate_quiz_questions"
    /\ oc.outcomes = <<"read_timeout", "http_error">>
    /\ Len(oc.prompts) = 2
    /\ oc.value = TimeoutFallback(oc.op)

\* ------------------------------------------- properties: quiz session
AttemptsFor(q) == Cardinality({i \in 1..Len(qv.attempts) : qv.attempts[i] = q})

\* C26: in a quiz session each question is answered at most once, also when
\* answer callbacks of the owner interleave: total_count and current_question
\* never exceed the number of questions, correct_count <= total_count, at
\* most one QuizAttempt is recorded per question, and finish_quiz runs at
\* most once.
C26_AnsweredOnce ==
    LET n == Len(qv.correct_answers)
    IN  /\ qv.total_count <= n
        /\ qv.correct_count <= qv.total_count
        /\ qv.current_question <= n
        /\ \A q \in 0..(n - 1) : AttemptsFor(q) <= 1
        /\ qv.finish_runs <= 1

\* ------------------------------------- properties: created entries
\* neither generation call is in progress
GenerationQuiet ==
    /\ gp.pc \in {"idle", "done", "raised"}
    /\ ae.pc \in {"idle", "done", "raised"}

\* C27: once generate_qa_pairs and generate_adversarial_examples have ended,
\* in whatever way, every question with a "created" changelog entry is in
\* the question store.
C27_CreatedIsStored ==
    GenerationQuiet =>
        \A i \in 1..Len(changelog) :
            changelog[i].action = "created" =>
                changelog[i].question_id \in DOMAIN questions

\* ------------------------------------ properties: concurrent evaluation
RemovedEntries(q) ==
    Cardinality({i \in DOMAIN changelog : /\ changelog[i].question_id = q
                                          /\ changelog[i].action = "removed"})

Retired == QuestionIds \ DOMAIN questions

\* C28: when two evaluate_and_update_questions calls on one material
\* interleave, no question gets more than one "removed" changelog entry, and
\* once both calls have returned every deleted question has exactly one and
\* the removed counts of the two calls add up to the number of questions
\* deleted.
C28_RemovedOnce ==
    /\ \A q \in QuestionIds : RemovedEntries(q) <= 1
    /\ (\A e \in EvalFlows : ev[e].pc = "done") =>
          /\ \A q \in Retired : RemovedEntries(q) = 1
          /\ ev[1].stats.removed + ev[2].stats.removed = Cardinality(Retired)

\* ------------------------------------ properties: evaluation counts
\* the positions of the evaluation's list whose question is gone from the store
DeletedPositions ==
    {j \in 1..Len(ev[1].questions) : ev[1].questions[j].id \notin DOMAIN questions}

\* the positions whose stored document differs from the one that was read
RewrittenPositions ==
    {j \in 1..Len(ev[1].questions) :
        /\ ev[1].questions[j].id \in DOMAIN questions
        /\ questions[ev[1].questions[j].id] # ev[1].questions[j]}

\* C29: the counts a call of evaluate_and_update_questions returns satisfy
\* removed + updated + no_action = total_questions, total_questions is the
\* number of questions of the material, removed is the number of questions
\* the call deleted and updated the number it rewrote (for a call that runs
\* without another evaluation beside it; C28 is about interleaved calls).
C29_CountsAddUp ==
    ev[1].pc = "done" =>
        LET stats == ev[1].stats
        IN  /\ stats.removed + stats.updated + stats.no_action = stats.total_questions
            /\ stats.total_questions = Len(ev[1].questions)
            /\ stats.removed = Cardinality(DeletedPositions)
            /\ stats.updated = Cardinality(RewrittenPositions)

\* a call that deleted one question and rewrote another
C29_Witness ==
    /\ ev[1].pc = "done"
    /\ ev[1].stats.removed = 1
    /\ ev[1].stats.updated = 1
    /\ Cardinality(DeletedPositions) = 1
    /\ Cardinality(RewrittenPositions) = 1

\* ----------------------------------- properties: placeholder questions
\* C30: generate_qa_pairs neither stores nor logs as "created" a placeholder
\* error question (topic "Error") of the generator: no question it collects
\* for saving, and so none it logs or stores, has the topic "Error".
C30_NoPlaceholderKept ==
    /\ \A i \in 1..Len(gp.all_questions) : gp.all_questions[i].topic # "Error"
    /\ \A q \in DOMAIN questions : questions[q].topic # "Error"

====
